---- MODULE Spec2Model ----
(***************************************************************************)
(* The news aggregation pipeline of services/newsService.ts:               *)
(* fetchMarketNews fans out one fetch per feed source, normalizes the      *)
(* items of the sources that answered 'ok', merges them into the archive   *)
(* kept in localStorage, prunes by the 7-day retention window, sorts,      *)
(* saves, and returns the merged list; any exception thrown on the way     *)
(* lands in the top-level catch, which returns the stored archive.       *)
(*                                                                         *)
(* Strings are sequences of one-character strings.  Instants are           *)
(* milliseconds counted from an arbitrary origin, so that every value the  *)
(* model computes with stays far below 2^31.                               *)
(***************************************************************************)
EXTENDS Integers, Sequences, FiniteSets, TLC

VARIABLES
    localStorage,   \* the value stored under STORAGE_KEY
    ticks,          \* milliseconds elapsed since Now0
    pc,             \* per call of fetchMarketNews: "idle", "fetching", "returned"
    responses,      \* per call and source: what the source's fetch settled with
    stored,         \* per call: what getItem returned to it (145, 181)
    archived,       \* per call: archivedArticles after step 2, when the call got there
    merged,         \* per call: mergedArticles after step 4, when the call got there
    writes,         \* per call: the setItem attempts, in order
    outcome,        \* per call: what the returned promise settled with
    returnedAt,     \* per call: Date.now() when it settled
    inFlightAtCall, \* per call: the calls that were suspended at the await when it was made
    returnedBefore, \* per call: the calls that had returned when it resumed
    settleOrder,    \* per call: the sources in the order their fetches settled,
                    \* where the specification keeps track of it
    feedItem,       \* the raw item the items.forEach callback is applied to (100)
    feedSource,     \* the source whose result the item belongs to
    article,        \* the article the callback pushed for it (124-137)
    fallbackSeed,   \* the string getFallbackImage is called with (47)
    placeholder,    \* what the call returned (52)
    news,           \* NewsFeed: the news state, the articles last set (18)
    activeTickerIndex \* NewsFeed: the activeTickerIndex state (21)

vars == <<localStorage, ticks, pc, responses, stored, archived, merged, writes, outcome, returnedAt,
          inFlightAtCall, returnedBefore, feedItem, feedSource, article,
          fallbackSeed, placeholder, settleOrder, news, activeTickerIndex>>

\* the variables of the callback applied to a single item
normalizerVars == <<feedItem, feedSource, article>>

\* the variables of a call of getFallbackImage
paletteVars == <<fallbackSeed, placeholder>>

\* the state of the NewsFeed component the ticker reads
tickerVars == <<news, activeTickerIndex>>

-----------------------------------------------------------------------------
(* Bounds of the model *)

\* The clock advances at most this many milliseconds past Now0.
MaxTicks == 2

\* mergedArticles.length > 200 guards the retry and slice(0, 200) bounds the
\* trimmed list; the model keeps both uses but scales the limit down so that
\* lists longer than it are reachable.
TrimLimit == 2

-----------------------------------------------------------------------------
(* JavaScript values *)

Undefined == [t |-> "undefined"]
\* a truthy value that is not a string (a number, an object)
NonString == [t |-> "nonstring"]
Str(s) == [t |-> "string", s |-> s]

IsString(v) == v.t = "string"
\* ToBoolean on the values above: undefined and "" are falsy
Truthy(v) == IF IsString(v) THEN v.s # <<>> ELSE v = NonString

\* The Number NaN; every ordering comparison with it is false.
NaN == -1
NumGt(a, b) == a # NaN /\ b # NaN /\ a > b

-----------------------------------------------------------------------------
(* Constants of newsService.ts *)

ONE_WEEK_MS == 7 * 24 * 60 * 60 * 1000

ForexLive == <<"F","o","r","e","x","L","i","v","e">>
FXStreet == <<"F","X","S","t","r","e","e","t">>
YahooFinance == <<"Y","a","h","o","o"," ","F","i","n","a","n","c","e">>
CoinTelegraph == <<"C","o","i","n","T","e","l","e","g","r","a","p","h">>

FEED_SOURCES ==
    << [category |-> "Sentiment", sourceName |-> ForexLive,     priority |-> 1],
       [category |-> "Squawk",    sourceName |-> FXStreet,      priority |-> 2],
       [category |-> "Markets",   sourceName |-> YahooFinance,  priority |-> 3],
       [category |-> "Crypto",    sourceName |-> CoinTelegraph, priority |-> 4] >>

Sources == DOMAIN FEED_SOURCES

-----------------------------------------------------------------------------
(* Time *)

\* Date.now() at the start of the model.
Now0 == 2 * ONE_WEEK_MS
Now == Now0 + ticks

\* new Date(item.pubDate).getTime(): a date string parses to its instant,
\* anything else (a missing pubDate, unparseable text) gives an Invalid Date.
DateString(ms) == [t |-> "datestring", ms |-> ms]
GetTime(pubDate) == IF pubDate.t = "datestring" THEN pubDate.ms ELSE NaN

-----------------------------------------------------------------------------
(* Text cleanup of the summary (line 111) *)

SUMMARY_LIMIT == 250
Ellipsis == <<".", ".", ".">>
Nbsp == <<"&", "n", "b", "s", "p", ";">>

\* the positions of s, in order
Positions(s) == [i \in DOMAIN s |-> i]

\* position i of s lies in a match of /<[^>]*>?/: a "<" at or before it is
\* followed by no ">" before i
InTag(s, i) ==
    \E j \in 1..i : s[j] = "<" /\ \A k \in j..(i - 1) : s[k] # ">"

\* s.replace(/<[^>]*>?/gm, ''): the characters outside the matches
StripTags(s) ==
    LET kept == SelectSeq(Positions(s), LAMBDA i : ~InTag(s, i))
    IN  [n \in DOMAIN kept |-> s[kept[n]]]

\* a match of /&nbsp;/ starts at position i of s
NbspAt(s, i) == i + Len(Nbsp) - 1 <= Len(s) /\ SubSeq(s, i, i + Len(Nbsp) - 1) = Nbsp

\* position i of s lies in a match of /&nbsp;/, after its first character
InsideNbsp(s, i) == \E k \in 1..(Len(Nbsp) - 1) : i - k >= 1 /\ NbspAt(s, i - k)

\* s.replace(/&nbsp;/g, ' '): a space for every match, the other characters
\* as they are
ReplaceNbsp(s) ==
    LET kept == SelectSeq(Positions(s), LAMBDA i : ~InsideNbsp(s, i))
    IN  [n \in DOMAIN kept |-> IF NbspAt(s, kept[n]) THEN " " ELSE s[kept[n]]]

\* s.slice(0, n) for n >= 0
Slice0(s, n) == SubSeq(s, 1, IF Len(s) < n THEN Len(s) ELSE n)

\* summaryClean of a description that is a string
CleanSummary(d) == Slice0(ReplaceNbsp(StripTags(d)), SUMMARY_LIMIT) \o Ellipsis

-----------------------------------------------------------------------------
(* Keyword classification (lines 55-74) *)

UpperCaseLetters == <<"A","B","C","D","E","F","G","H","I","J","K","L","M","N","O","P","Q","R","S","T","U","V","W","X","Y","Z">>
LowerCaseLetters == <<"a","b","c","d","e","f","g","h","i","j","k","l","m","n","o","p","q","r","s","t","u","v","w","x","y","z">>

\* toLowerCase on one character
LowerChar(ch) ==
    IF \E i \in DOMAIN UpperCaseLetters : UpperCaseLetters[i] = ch
    THEN LowerCaseLetters[CHOOSE i \in DOMAIN UpperCaseLetters : UpperCaseLetters[i] = ch]
    ELSE ch

\* s.toLowerCase()
ToLowerCase(s) == [i \in DOMAIN s |-> LowerChar(s[i])]

\* s.includes(w): w is found at some position of s
Includes(s, w) ==
    \E i \in 1..(Len(s) - Len(w) + 1) : SubSeq(s, i, i + Len(w) - 1) = w

\* keywords.some(k => lower.includes(k)), from the k-th keyword on
RECURSIVE SomeIncludedFrom(_, _, _)
SomeIncludedFrom(keywords, lower, k) ==
    IF k > Len(keywords) THEN FALSE
    ELSE IF Includes(lower, keywords[k]) THEN TRUE
    ELSE SomeIncludedFrom(keywords, lower, k + 1)

SomeIncluded(keywords, lower) == SomeIncludedFrom(keywords, lower, 1)

bullish ==
    << <<"s","o","a","r","s">>,
       <<"j","u","m","p","s">>,
       <<"r","a","l","l","i","e","s">>,
       <<"g","a","i","n","s">>,
       <<"b","u","l","l">>,
       <<"b","u","y">>,
       <<"s","u","p","p","o","r","t"," ","h","o","l","d">>,
       <<"b","r","e","a","k","o","u","t">>,
       <<"h","i","g","h","e","r">>,
       <<"h","a","w","k","i","s","h">>,
       <<"b","e","a","t","s">>,
       <<"p","o","s","i","t","i","v","e">>,
       <<"u","p","g","r","a","d","e">>,
       <<"s","u","r","g","e","s">>,
       <<"r","e","c","o","r","d","s">>,
       <<"r","e","c","o","v","e","r","s">>,
       <<"r","e","c","o","r","d"," ","h","i","g","h">> >>

bearish ==
    << <<"p","l","u","n","g","e","s">>,
       <<"d","i","v","e","s">>,
       <<"d","r","o","p","s">>,
       <<"f","a","l","l","s">>,
       <<"b","e","a","r">>,
       <<"s","e","l","l">>,
       <<"r","e","s","i","s","t","a","n","c","e">>,
       <<"b","r","e","a","k","d","o","w","n">>,
       <<"l","o","w","e","r">>,
       <<"d","o","v","i","s","h">>,
       <<"m","i","s","s","e","s">>,
       <<"n","e","g","a","t","i","v","e">>,
       <<"d","o","w","n","g","r","a","d","e">>,
       <<"r","e","t","r","e","a","t","s">>,
       <<"c","r","a","s","h">>,
       <<"s","i","n","k","s">>,
       <<"l","o","w","s">> >>

\* mutant of analyzeSentiment: the bearish list is tried first
analyzeSentimentBearishFirst(text) ==
    LET lower == ToLowerCase(text)
    IN  IF SomeIncluded(bearish, lower) THEN "Bearish"
        ELSE IF SomeIncluded(bullish, lower) THEN "Bullish"
        ELSE "Neutral"

analyzeSentiment(text) ==
    LET lower == ToLowerCase(text)
    IN  IF SomeIncluded(bullish, lower) THEN "Bullish"
        ELSE IF SomeIncluded(bearish, lower) THEN "Bearish"
        ELSE "Neutral"

highImpactKeywords ==
    << <<"f","e","d"," ">>,
       <<"f","e","d","e","r","a","l"," ","r","e","s","e","r","v","e">>,
       <<"f","o","m","c">>,
       <<"p","o","w","e","l","l">>,
       <<"e","c","b">>,
       <<"l","a","g","a","r","d","e">>,
       <<"b","o","j">>,
       <<"u","e","d","a">>,
       <<"c","p","i">>,
       <<"n","f","p">>,
       <<"r","a","t","e"," ","d","e","c","i","s","i","o","n">>,
       <<"h","i","k","e">>,
       <<"c","u","t">>,
       <<"r","a","t","e","s">>,
       <<"b","r","e","a","k","i","n","g">>,
       <<"u","r","g","e","n","t">>,
       <<"a","l","e","r","t">>,
       <<"w","a","r">>,
       <<"i","n","v","a","s","i","o","n">> >>

\* mutant of checkForBreakingContext: the text is searched as it is written
checkForBreakingContextCaseSensitive(text) == SomeIncluded(highImpactKeywords, text)

checkForBreakingContext(text) ==
    LET lower == ToLowerCase(text)
    IN  SomeIncluded(highImpactKeywords, lower)

-----------------------------------------------------------------------------
(* Placeholder images (lines 37-53) *)

UnsplashPrefix == <<"h", "t", "t", "p", "s", ":", "/", "/", "i", "m", "a", "g", "e", "s", ".", "u", "n", "s", "p", "l", "a", "s", "h", ".", "c", "o", "m", "/">>
UnsplashQuery == <<"?", "a", "u", "t", "o", "=", "f", "o", "r", "m", "a", "t", "&", "f", "i", "t", "=", "c", "r", "o", "p", "&", "q", "=", "8", "0", "&", "w", "=", "1", "0", "0", "0">>

\* const FALLBACK_IMAGES = [...] (37-45)
FALLBACK_IMAGES ==
    << UnsplashPrefix \o <<"p", "h", "o", "t", "o", "-", "1", "6", "1", "1", "9", "7", "4", "7", "6", "5", "2", "7", "0", "-", "c", "a", "1", "2", "5", "8", "6", "3", "4", "3", "6", "9">> \o UnsplashQuery,
       UnsplashPrefix \o <<"p", "h", "o", "t", "o", "-", "1", "5", "9", "0", "2", "8", "3", "6", "0", "3", "3", "8", "5", "-", "1", "7", "f", "f", "b", "3", "a", "7", "f", "2", "9", "f">> \o UnsplashQuery,
       UnsplashPrefix \o <<"p", "h", "o", "t", "o", "-", "1", "6", "4", "2", "5", "4", "3", "4", "9", "2", "4", "8", "1", "-", "4", "4", "e", "8", "1", "e", "3", "9", "1", "4", "a", "7">> \o UnsplashQuery,
       UnsplashPrefix \o <<"p", "h", "o", "t", "o", "-", "1", "6", "2", "1", "5", "0", "4", "4", "5", "0", "1", "6", "8", "-", "3", "8", "f", "6", "4", "7", "3", "1", "9", "6", "8", "0">> \o UnsplashQuery,
       UnsplashPrefix \o <<"p", "h", "o", "t", "o", "-", "1", "6", "1", "4", "0", "2", "8", "6", "7", "4", "0", "2", "6", "-", "a", "6", "5", "e", "3", "1", "b", "f", "d", "2", "7", "c">> \o UnsplashQuery,
       UnsplashPrefix \o <<"p", "h", "o", "t", "o", "-", "1", "5", "6", "5", "5", "1", "4", "0", "2", "0", "1", "7", "6", "-", "d", "b", "f", "2", "2", "3", "8", "4", "9", "1", "4", "e">> \o UnsplashQuery,
       UnsplashPrefix \o <<"p", "h", "o", "t", "o", "-", "1", "5", "2", "6", "3", "0", "4", "6", "4", "0", "1", "5", "2", "-", "d", "4", "6", "1", "9", "6", "8", "4", "e", "4", "8", "4">> \o UnsplashQuery >>

\* The characters with char codes 32..95 and 97..126, in the order of their
\* codes (the grave accent, code 96, cannot be written in a string here).
CodesFrom32 ==
    <<" ", "!", "\"", "#", "$", "%", "&", "'", "(", ")", "*", "+", ",", "-", ".", "/">> \o
    <<"0", "1", "2", "3", "4", "5", "6", "7", "8", "9", ":", ";", "<", "=", ">", "?">> \o
    <<"@", "A", "B", "C", "D", "E", "F", "G", "H", "I", "J", "K", "L", "M", "N", "O">> \o
    <<"P", "Q", "R", "S", "T", "U", "V", "W", "X", "Y", "Z", "[", "\\", "]", "^", "_">>
CodesFrom97 ==
    <<"a", "b", "c", "d", "e", "f", "g", "h", "i", "j", "k", "l", "m", "n", "o", "p">> \o
    <<"q", "r", "s", "t", "u", "v", "w", "x", "y", "z", "{", "|", "}", "~">>

\* index of a character in a table that holds it
IndexIn(table, ch) == CHOOSE i \in DOMAIN table : table[i] = ch

\* seed.charCodeAt(i) for a character of the two tables
charCodeAt(ch) ==
    IF \E i \in DOMAIN CodesFrom97 : CodesFrom97[i] = ch
    THEN 96 + IndexIn(CodesFrom97, ch)
    ELSE 31 + IndexIn(CodesFrom32, ch)

\* hash is a Number: an integer that leaves the 32-bit range, since only the
\* operand of << is converted to 32 bits. It is kept as hi * Limb + lo with
\* lo \in 0..(Limb - 1), so that no intermediate value leaves the range of the
\* checker's integers.
Limb == 2 ^ 16

ZeroHash == [hi |-> 0, lo |-> 0]

\* hash << 5: ToInt32(hash) shifted left, the result a signed 32-bit integer
ShiftLeft5(hash) ==
    LET low  == 32 * hash.lo
        high == (32 * hash.hi + (low \div Limb)) % Limb
    IN  [hi |-> IF high >= Limb \div 2 THEN high - Limb ELSE high, lo |-> low % Limb]

\* hash = seed.charCodeAt(i) + ((hash << 5) - hash) (50)
HashStep(hash, code) ==
    LET shifted == ShiftLeft5(hash)
        low     == shifted.lo - hash.lo + code
    IN  [hi |-> shifted.hi - hash.hi + (low \div Limb), lo |-> low % Limb]

\* hash after the first n iterations of the loop (48-51); the hash left by
\* the iteration before is bound as a value, then the step is applied to it
RECURSIVE HashUpTo(_, _)
HashUpTo(seed, n) ==
    IF n = 0 THEN ZeroHash
    ELSE CHOOSE hash \in {HashStep(prev, charCodeAt(seed[n])) :
                              prev \in {HashUpTo(seed, n - 1)}} : TRUE

IsNegative(hash) == hash.hi < 0

\* Math.abs(hash) % m
AbsMod(hash, m) ==
    IF IsNegative(hash)
    THEN (((0 - hash.hi) % m) * (Limb % m) - (hash.lo % m)) % m
    ELSE ((hash.hi % m) * (Limb % m) + (hash.lo % m)) % m

\* array[index] of a zero-based index; undefined outside the array
ElementAt(array, index) ==
    IF index >= 0 /\ index < Len(array) THEN Str(array[index + 1]) ELSE Undefined

\* mutant of getFallbackImage: hash % FALLBACK_IMAGES.length without Math.abs;
\* the remainder takes the sign of the hash
getFallbackImageSigned(seed) ==
    LET hash == HashUpTo(seed, Len(seed))
    IN  ElementAt(FALLBACK_IMAGES,
                  IF IsNegative(hash) THEN 0 - AbsMod(hash, Len(FALLBACK_IMAGES))
                  ELSE AbsMod(hash, Len(FALLBACK_IMAGES)))

\* getFallbackImage (47-53)
getFallbackImage(seed) ==
    LET hash == HashUpTo(seed, Len(seed))
    IN  ElementAt(FALLBACK_IMAGES, AbsMod(hash, Len(FALLBACK_IMAGES)))

-----------------------------------------------------------------------------
(* Raw feed items and the Content Normalizer (lines 101-137) *)

\* an element of data.items that is null
NullItem == [t |-> "null"]

RawItem(guid, link, title, description, pubDate) ==
    [t |-> "object", guid |-> guid, link |-> link, title |-> title,
     description |-> description, content |-> Undefined, thumbnail |-> Undefined,
     enclosureLink |-> Undefined, author |-> Undefined, pubDate |-> pubDate]

\* String(v) as used by string concatenation and template literals
StringOf(v) == IF IsString(v) THEN v.s ELSE <<"u","n","d","e","f","i","n","e","d">>

\* a || b on the values above
OrElse(a, b) == IF Truthy(a) THEN a ELSE b

\* mutant of ImageCandidate: the enclosure link is preferred to the thumbnail
ImageCandidateEnclosureFirst(item) ==
    IF Truthy(item.enclosureLink) THEN item.enclosureLink ELSE item.thumbnail

\* let imageUrl after lines 103-104, before the src= search
ImageCandidate(item) ==
    IF ~Truthy(item.thumbnail) /\ Truthy(item.enclosureLink)
    THEN item.enclosureLink ELSE item.thumbnail

\* the characters ["'] of the pattern
Quotes == {"\"", "'"}

SrcEquals == <<"s", "r", "c", "=">>

\* the positions after i + 4 that hold a quote
QuotesAfter(s, i) == {j \in (i + 5)..Len(s) : s[j] \in Quotes}

\* /src=["']([^"']*)["']/ matches at position i of s: src=, a quote, then
\* characters that are no quotes, then a quote
SrcMatchesAt(s, i) ==
    /\ i + 4 <= Len(s)
    /\ SubSeq(s, i, i + 3) = SrcEquals
    /\ s[i + 4] \in Quotes
    /\ QuotesAfter(s, i) # {}

Least(S) == CHOOSE x \in S : \A y \in S : x <= y

\* what String.match returns when the pattern occurs nowhere
NoMatch == [t |-> "null"]

\* v?.match(/src=["']([^"']*)["']/) for an undefined or string v: no match,
\* or the group captured by the leftmost match
SrcMatch(v) ==
    IF IsString(v) /\ \E i \in DOMAIN v.s : SrcMatchesAt(v.s, i)
    THEN LET first == Least({i \in DOMAIN v.s : SrcMatchesAt(v.s, i)})
         IN  Str(SubSeq(v.s, first + 5, Least(QuotesAfter(v.s, first)) - 1))
    ELSE NoMatch

\* const imgMatch = item.content?.match(..) || item.description?.match(..);
\* a match is truthy whatever it captured (106)
ImgMatch(item) ==
    IF SrcMatch(item.content) # NoMatch THEN SrcMatch(item.content)
    ELSE SrcMatch(item.description)

\* let imageUrl after lines 103-108
FoundImage(item) ==
    IF ~Truthy(ImageCandidate(item)) /\ ImgMatch(item) # NoMatch
    THEN ImgMatch(item) ELSE ImageCandidate(item)

\* The callback of items.forEach raises a TypeError: a property read on null
\* (103), .match on a content or description that is not a string (106),
\* .replace on a description that is not a string (111), .includes on an
\* imageUrl that is not a string (118).
NormalizeThrows(item) ==
    \/ item = NullItem
    \/ /\ item # NullItem
       /\ \/ ~Truthy(ImageCandidate(item)) /\ item.content = NonString
          \/ item.description = NonString
          \/ ImageCandidate(item) = NonString

\* mutant of UniqueId: the link is preferred to the guid
UniqueIdLinkFirst(item, config) ==
    OrElse(item.link,
           OrElse(item.guid, Str(config.sourceName \o <<"-">> \o StringOf(item.title)))).s

\* const uniqueId = item.guid || item.link || `${config.sourceName}-${item.title}`
UniqueId(item, config) ==
    OrElse(item.guid,
           OrElse(item.link, Str(config.sourceName \o <<"-">> \o StringOf(item.title)))).s

\* const summaryClean = item.description ? ... : ''
SummaryClean(item) ==
    IF Truthy(item.description) THEN CleanSummary(item.description.s) ELSE <<>>

\* The article pushed at lines 124-137, for an item that raises nothing.
\* The record carries what the merge, the filter and the sort read (id,
\* publishedAt) and the fields that tell two copies of an id apart; imageUrl,
\* timestamp, isBreaking and sentiment are functions of the same item and
\* clock and are not carried.
Normalize(item, config) ==
    [id          |-> UniqueId(item, config),
     headline    |-> item.title,
     summary     |-> SummaryClean(item),
     category    |-> config.category,
     publishedAt |-> GetTime(item.pubDate),
     author      |-> OrElse(item.author, Str(config.sourceName)).s,
     url         |-> item.link,
     fullContent |-> OrElse(item.content, item.description)]

Feedburner == <<"f", "e", "e", "d", "b", "u", "r", "n", "e", "r">>
Ads == <<"a", "d", "s">>

\* imageUrl as pushed (132): the fallback replaces a missing image and one
\* whose URL includes 'feedburner' or 'ads' (118-120)
ImageUrl(item, config) ==
    LET imageUrl == FoundImage(item)
    IN  IF \/ ~Truthy(imageUrl)
           \/ Includes(imageUrl.s, Feedburner)
           \/ Includes(imageUrl.s, Ads)
        THEN getFallbackImage(OrElse(item.title, Str(UniqueId(item, config))).s)
        ELSE imageUrl

\* const textContent = item.title + ' ' + summaryClean (122)
TextContent(item) == StringOf(item.title) \o <<" ">> \o SummaryClean(item)

\* The article of lines 124-137 with the image (132) and the two fields
\* computed from textContent (135, 136).
ClassifiedArticle(item, config) ==
    Normalize(item, config) @@
        [imageUrl   |-> ImageUrl(item, config),
         isBreaking |-> checkForBreakingContext(TextContent(item)),
         sentiment  |-> analyzeSentiment(TextContent(item))]

-----------------------------------------------------------------------------
(* What a source's fetch settles with, and lines 90-93 *)

\* fetch() rejects (network failure)
FetchRejects == [t |-> "rejected"]
\* res.json() rejects (the body is no JSON)
BadJson == [t |-> "badjson"]
\* the body parses to an object; items is Undefined (no such field), an array,
\* or NonString (a truthy value that is no array)
Body(status, items) == [t |-> "json", status |-> status, items |-> items]
Array(a) == [t |-> "array", a |-> a]
EmptyArray == Array(<<>>)

\* not settled yet
Pending == [t |-> "pending"]

\* .then(data => ({ status: data.status, items: data.items || [] }))
\* .catch(err => ({ status: 'error', items: [] }))
SettledResult(r) ==
    IF r.t = "json"
    THEN [status |-> r.status,
          items  |-> IF r.items = Undefined THEN EmptyArray ELSE r.items]
    ELSE [status |-> "error", items |-> EmptyArray]

-----------------------------------------------------------------------------
(* localStorage and JSON *)

\* getItem returns null: nothing is stored under the key
NoEntry == [t |-> "null"]
\* a stored string; json is what JSON.parse makes of it
StoredText(json) == [t |-> "string", json |-> json]
\* JSON.parse throws a SyntaxError on the text
Unparseable == [t |-> "unparseable"]

\* JSON.stringify writes a NaN as null, which reads back as a number 0 in
\* comparisons and subtractions; properties holding undefined are left out
\* and read back as undefined.
JsonArticle(a) == [a EXCEPT !.publishedAt = IF @ = NaN THEN 0 ELSE @]
JSONstringify(list) == StoredText(Array([i \in DOMAIN list |-> JsonArticle(list[i])]))

JSONparseThrows(text) == text.json = Unparseable
JSONparse(text) == text.json

-----------------------------------------------------------------------------
(* Steps of fetchMarketNews *)

\* the value of a local the call did not get to assign
NotReached == [t |-> "unreached"]

\* results.forEach / items.forEach (99-140) raises: items of an 'ok' result is
\* no array, or normalizing one of its items raises
ForEachThrows(results) ==
    \E s \in Sources :
        /\ results[s].status = "ok"
        /\ \/ results[s].items = NonString
           \/ /\ results[s].items # NonString
              /\ \E i \in DOMAIN results[s].items.a :
                    NormalizeThrows(results[s].items.a[i])

\* the articles pushed for one result (99-139)
ArticlesOf(results, s) ==
    IF results[s].status = "ok"
    THEN [i \in DOMAIN results[s].items.a |->
             Normalize(results[s].items.a[i], FEED_SOURCES[s])]
    ELSE <<>>

\* freshArticles after results.forEach: the results are in FEED_SOURCES order
RECURSIVE FreshUpTo(_, _)
FreshUpTo(results, n) ==
    IF n = 0 THEN <<>> ELSE FreshUpTo(results, n - 1) \o ArticlesOf(results, n)

RECURSIVE FreshAlong(_, _)
FreshAlong(results, order) ==
    IF order = <<>> THEN <<>>
    ELSE ArticlesOf(results, Head(order)) \o FreshAlong(results, Tail(order))

\* mutant of FreshArticles: the results are taken in the order in which the
\* fetches of the first call settled
FreshArticlesAsSettled(results) == FreshAlong(results, settleOrder[1])

FreshArticles(results) == FreshUpTo(results, Len(FEED_SOURCES))

\* archivedArticles after step 2 (143-149): a parse error is caught there
LoadArchive(text) ==
    IF text = NoEntry THEN EmptyArray
    ELSE IF JSONparseThrows(text) THEN EmptyArray
    ELSE JSONparse(text)

\* mutant of MapSet: every set adds an entry
MapSetAppends(m, a) == Append(m, a)

\* articleMap.set(a.id, a): a Map keeps its entries in insertion order, and
\* setting a key it already has keeps that key's position
MapSet(m, a) ==
    IF \E i \in DOMAIN m : m[i].id = a.id
    THEN [i \in DOMAIN m |-> IF m[i].id = a.id THEN a ELSE m[i]]
    ELSE Append(m, a)

RECURSIVE MapSetAll(_, _)
MapSetAll(m, list) ==
    IF list = <<>> THEN m ELSE MapSetAll(MapSet(m, Head(list)), Tail(list))

\* mutant of MergeArticles: the archive is set after the fresh articles
MergeArchiveLast(archivedArticles, freshArticles) ==
    MapSetAll(MapSetAll(<<>>, freshArticles), archivedArticles)

\* mutant of MergeArticles: the archive is not put in the map
MergeFreshOnly(archivedArticles, freshArticles) ==
    MapSetAll(<<>>, freshArticles)

\* Array.from(articleMap.values()) after lines 152-157
MergeArticles(archivedArticles, freshArticles) ==
    MapSetAll(MapSetAll(<<>>, archivedArticles), freshArticles)

\* .filter(a => a.publishedAt > cutoff)
Retained(a, cutoff) == NumGt(a.publishedAt, cutoff)
FilterRetained(list, cutoff) == SelectSeq(list, LAMBDA a : Retained(a, cutoff))

\* mutant of SortsBefore: b also sorts before an a that is as recent
SortsBeforeOrLevel(b, a) == b.publishedAt - a.publishedAt >= 0

\* (a, b) => b.publishedAt - a.publishedAt is positive: b sorts before a
SortsBefore(b, a) == b.publishedAt - a.publishedAt > 0

\* Array.prototype.sort is stable: x goes in front of the first element it
\* sorts before
RECURSIVE InsertSorted(_, _)
InsertSorted(x, sorted) ==
    IF sorted = <<>> THEN <<x>>
    ELSE IF SortsBefore(x, Head(sorted)) THEN <<x>> \o sorted
    ELSE <<Head(sorted)>> \o InsertSorted(x, Tail(sorted))

RECURSIVE SortedUpTo(_, _)
SortedUpTo(list, n) ==
    IF n = 0 THEN <<>> ELSE InsertSorted(list[n], SortedUpTo(list, n - 1))

\* mutant of SortByPublishedAt: the list is left in map order
SortSkipped(list) == list

\* .sort((a, b) => b.publishedAt - a.publishedAt)
SortByPublishedAt(list) == SortedUpTo(list, Len(list))

\* mergedArticles (160-163)
MergedArticles(archivedArticles, freshArticles, now) ==
    SortByPublishedAt(
        FilterRetained(MergeArticles(archivedArticles, freshArticles), now - ONE_WEEK_MS))

\* what the promise returned by fetchMarketNews settles with
Resolved(value) == [t |-> "resolved", value |-> value]
Rejected == [t |-> "rejected"]
Unsettled == [t |-> "unsettled"]

\* the catch block (178-183): stored ? JSON.parse(stored) : []
CatchBlock(text) ==
    IF text = NoEntry THEN Resolved(EmptyArray)
    ELSE IF JSONparseThrows(text) THEN Rejected
    ELSE Resolved(JSONparse(text))

SetItem(value, ok) == [value |-> value, ok |-> ok]

\* mutant of SaveAndReturn: the retry writes the list without slicing it
SaveAndReturnUnsliced(text, arch, m, failFirst, failRetry) ==
    LET full == JSONstringify(m)
    IN  IF ~failFirst
        THEN [storage |-> full, archived |-> arch, merged |-> Array(m),
              writes |-> <<SetItem(full, TRUE)>>, outcome |-> Resolved(Array(m))]
        ELSE IF Len(m) > TrimLimit
        THEN IF ~failRetry
             THEN [storage |-> full, archived |-> arch, merged |-> Array(m),
                   writes |-> <<SetItem(full, FALSE), SetItem(full, TRUE)>>,
                   outcome |-> Resolved(Array(m))]
             ELSE [storage |-> text, archived |-> arch, merged |-> Array(m),
                   writes |-> <<SetItem(full, FALSE), SetItem(full, FALSE)>>,
                   outcome |-> CatchBlock(text)]
        ELSE [storage |-> text, archived |-> arch, merged |-> Array(m),
              writes |-> <<SetItem(full, FALSE)>>, outcome |-> Resolved(Array(m))]

\* mutant of SaveAndReturn: the retry is made whatever the length of the list
SaveAndReturnAlwaysRetries(text, arch, m, failFirst, failRetry) ==
    LET full    == JSONstringify(m)
        trimmed == JSONstringify(Slice0(m, TrimLimit))
    IN  IF ~failFirst
        THEN [storage |-> full, archived |-> arch, merged |-> Array(m),
              writes |-> <<SetItem(full, TRUE)>>, outcome |-> Resolved(Array(m))]
        ELSE IF ~failRetry
        THEN [storage |-> trimmed, archived |-> arch, merged |-> Array(m),
              writes |-> <<SetItem(full, FALSE), SetItem(trimmed, TRUE)>>,
              outcome |-> Resolved(Array(m))]
        ELSE [storage |-> text, archived |-> arch, merged |-> Array(m),
              writes |-> <<SetItem(full, FALSE), SetItem(trimmed, FALSE)>>,
              outcome |-> CatchBlock(text)]

\* step 5 and the return (166-176), for a merged list m; failFirst and
\* failRetry say whether the first and the second setItem raise
SaveAndReturn(text, arch, m, failFirst, failRetry) ==
    LET full    == JSONstringify(m)
        trimmed == JSONstringify(Slice0(m, TrimLimit))
    IN  IF ~failFirst
        THEN [storage |-> full, archived |-> arch, merged |-> Array(m),
              writes |-> <<SetItem(full, TRUE)>>, outcome |-> Resolved(Array(m))]
        ELSE IF Len(m) > TrimLimit
        THEN IF ~failRetry
             THEN [storage |-> trimmed, archived |-> arch, merged |-> Array(m),
                   writes |-> <<SetItem(full, FALSE), SetItem(trimmed, TRUE)>>,
                   outcome |-> Resolved(Array(m))]
             ELSE [storage |-> text, archived |-> arch, merged |-> Array(m),
                   writes |-> <<SetItem(full, FALSE), SetItem(trimmed, FALSE)>>,
                   outcome |-> CatchBlock(text)]
        ELSE [storage |-> text, archived |-> arch, merged |-> Array(m),
              writes |-> <<SetItem(full, FALSE)>>, outcome |-> Resolved(Array(m))]

\* everything after await Promise.all (96-183) runs without suspension
AfterAwait(resp, text, now, failFirst, failRetry) ==
    LET results == [s \in Sources |-> SettledResult(resp[s])]
        arch    == LoadArchive(text)
    IN  IF ForEachThrows(results)
        THEN [storage |-> text, archived |-> NotReached, merged |-> NotReached,
              writes |-> <<>>, outcome |-> CatchBlock(text)]
        ELSE IF arch = NonString
        THEN [storage |-> text, archived |-> arch, merged |-> NotReached,
              writes |-> <<>>, outcome |-> CatchBlock(text)]
        ELSE SaveAndReturn(text, arch,
                           MergedArticles(arch.a, FreshArticles(results), now),
                           failFirst, failRetry)

-----------------------------------------------------------------------------
(* The feed payloads the model draws from *)

GuidA == <<"g", "u", "i", "d", ":", "A">>
GuidB == <<"g", "u", "i", "d", ":", "B">>
GuidE == <<"g", "u", "i", "d", ":", "E">>
LinkA == <<"h", "t", "t", "p", ":", "/", "/", "x", "/", "a">>
LinkC == <<"h", "t", "t", "p", ":", "/", "/", "x", "/", "c">>
TitleUp == <<"G", "o", "l", "d", " ", "u", "p">>
TitleUpdated == <<"G", "o", "l", "d", " ", "u", "p", " ", "2", "%">>
TitleYen == <<"Y", "e", "n">>
DescMarkup == <<"<", "p", ">", "u", "p", "&", "n", "b", "s", "p", ";", "2", "<", "/", "p", ">">>
DescPlain == <<"f", "l", "a", "t">>

\* published at Now0, and one second before
PubNow == DateString(Now0)
PubRecent == DateString(Now0 - 1000)
\* published exactly one week before Now0, and one millisecond later
PubEdge == DateString(Now0 - ONE_WEEK_MS)
PubNearEdge == DateString(Now0 - ONE_WEEK_MS + 1)
\* published ten days before Now0
PubTenDays == DateString(Now0 - 10 * 24 * 60 * 60 * 1000)

ItemA == RawItem(Str(GuidA), Str(LinkA), Str(TitleUp), Str(DescMarkup), PubNow)
\* the same feed item after the provider updated its title
ItemAUpdated == [ItemA EXCEPT !.title = Str(TitleUpdated)]
\* the same guid with a pubDate that does not parse
ItemAUndated == [ItemA EXCEPT !.pubDate = Undefined]
ItemB == RawItem(Str(GuidB), Undefined, Str(TitleYen), Str(DescPlain), PubNearEdge)
\* the same guid with a description that is not a string
ItemBBadDescription == [ItemB EXCEPT !.description = NonString]
\* no guid: the id is the link
ItemC == RawItem(Undefined, Str(LinkC), Str(TitleYen), Undefined, PubRecent)
\* neither guid nor link: the id is made of source name and title
ItemD == RawItem(Undefined, Undefined, Str(TitleUp), Str(DescPlain), PubRecent)
ItemEdge == RawItem(Str(GuidE), Undefined, Undefined, Undefined, PubEdge)
ItemTenDays == RawItem(Str(GuidE), Undefined, Undefined, Undefined, PubTenDays)

\* what each source's fetch can settle with
FeedResponses ==
    << { FetchRejects,
         Body("ok", Array(<<ItemA, ItemB>>)),
         Body("ok", Array(<<ItemB, NullItem>>)) },
       { BadJson,
         Body("ok", Array(<<ItemA, ItemAUpdated, ItemC>>)),
         Body("ok", Array(<<ItemAUndated>>)),
         Body("ok", NonString) },
       { Body("error", Array(<<ItemC>>)),
         Body("ok", Array(<<ItemD, ItemTenDays>>)) },
       { Body("ok", Undefined),
         Body("ok", Array(<<ItemEdge, ItemC>>)),
         Body("ok", Array(<<ItemBBadDescription>>)) } >>

-----------------------------------------------------------------------------
(* The state machine *)

\* concurrent invocations of fetchMarketNews the state has room for
Calls == {1, 2}
\* the invocations a caller that awaits each call before the next one makes
SerialCalls == {1}

\* Nothing is stored under the key on a first visit; the key may also hold
\* text written by something else: text that is no JSON, or JSON that is no
\* array.  Every list the key comes to hold is written by fetchMarketNews.
Init ==
    /\ localStorage \in {NoEntry, StoredText(Unparseable), StoredText(NonString)}
    /\ ticks = 0
    /\ pc = [c \in Calls |-> "idle"]
    /\ responses = [c \in Calls |-> [s \in Sources |-> Pending]]
    /\ stored = [c \in Calls |-> NotReached]
    /\ archived = [c \in Calls |-> NotReached]
    /\ merged = [c \in Calls |-> NotReached]
    /\ writes = [c \in Calls |-> <<>>]
    /\ outcome = [c \in Calls |-> Unsettled]
    /\ returnedAt = [c \in Calls |-> 0]
    /\ inFlightAtCall = [c \in Calls |-> {}]
    /\ returnedBefore = [c \in Calls |-> {}]
    /\ settleOrder = [c \in Calls |-> <<>>]
    /\ feedItem = NotReached /\ feedSource = 1 /\ article = NotReached
    /\ fallbackSeed = <<>> /\ placeholder = NotReached
    /\ news = <<>> /\ activeTickerIndex = 0

\* the clock advances by a millisecond
Tick ==
    /\ ticks < MaxTicks
    /\ ticks' = ticks + 1
    /\ UNCHANGED <<localStorage, pc, responses, stored, archived, merged, writes, outcome, returnedAt,
                   inFlightAtCall, returnedBefore, normalizerVars, paletteVars,
                   tickerVars, settleOrder>>

\* fetchMarketNews is called: FEED_SOURCES.map issues every fetch (89-94) and
\* the call suspends at await Promise.all (96).  The record of the slot's
\* previous call is dropped, and with it what the other calls noted about it.
StartCall(c) ==
    /\ pc[c] \in {"idle", "returned"}
    /\ pc' = [pc EXCEPT ![c] = "fetching"]
    /\ responses' = [responses EXCEPT ![c] = [s \in Sources |-> Pending]]
    /\ stored' = [stored EXCEPT ![c] = NotReached]
    /\ archived' = [archived EXCEPT ![c] = NotReached]
    /\ merged' = [merged EXCEPT ![c] = NotReached]
    /\ writes' = [writes EXCEPT ![c] = <<>>]
    /\ outcome' = [outcome EXCEPT ![c] = Unsettled]
    /\ returnedAt' = [returnedAt EXCEPT ![c] = 0]
    /\ inFlightAtCall' = [d \in Calls |->
                             IF d = c THEN {e \in Calls : pc[e] = "fetching"}
                             ELSE inFlightAtCall[d] \ {c}]
    /\ returnedBefore' = [d \in Calls |->
                             IF d = c THEN {} ELSE returnedBefore[d] \ {c}]
    /\ settleOrder' = [settleOrder EXCEPT ![c] = <<>>]
    /\ UNCHANGED <<localStorage, ticks, normalizerVars, paletteVars, tickerVars>>

\* the fetch of source s settles; the others are left as they are
SettleFetch(c, s) ==
    /\ pc[c] = "fetching"
    /\ responses[c][s] = Pending
    /\ \E r \in FeedResponses[s] :
          responses' = [responses EXCEPT ![c][s] = r]
    /\ UNCHANGED <<localStorage, ticks, pc, stored, archived, merged, writes, outcome, returnedAt,
                   inFlightAtCall, returnedBefore, normalizerVars, paletteVars,
                   tickerVars, settleOrder>>

AllSettled(c) == \A s \in Sources : responses[c][s] # Pending

\* Promise.all resolves once every fetch has settled; the call resumes and
\* runs to its return
Resume(c) ==
    /\ pc[c] = "fetching"
    /\ AllSettled(c)
    /\ \E failFirst, failRetry \in BOOLEAN :
          LET r == AfterAwait(responses[c], localStorage, Now, failFirst, failRetry)
          IN  /\ localStorage' = r.storage
              /\ stored' = [stored EXCEPT ![c] = localStorage]
              /\ archived' = [archived EXCEPT ![c] = r.archived]
              /\ merged' = [merged EXCEPT ![c] = r.merged]
              /\ writes' = [writes EXCEPT ![c] = r.writes]
              /\ outcome' = [outcome EXCEPT ![c] = r.outcome]
    /\ pc' = [pc EXCEPT ![c] = "returned"]
    /\ returnedAt' = [returnedAt EXCEPT ![c] = Now]
    /\ returnedBefore' = [returnedBefore EXCEPT ![c] = {d \in Calls : pc[d] = "returned"}]
    /\ UNCHANGED <<ticks, responses, inFlightAtCall, normalizerVars, paletteVars,
                   tickerVars, settleOrder>>

Next ==
    \/ Tick
    \/ \E c \in SerialCalls : StartCall(c)
    \/ \E c \in SerialCalls, s \in Sources : SettleFetch(c, s)
    \/ \E c \in SerialCalls : Resume(c)

Spec == Init /\ [][Next]_vars

-----------------------------------------------------------------------------
(* Overlapping calls: the NewsFeed component calls fetchNews on mount and   *)
(* from setInterval every 60 s, and from the refresh button, without        *)
(* waiting for the call before, so two calls can be suspended at the await  *)
(* at once.                                                                 *)

\* what each source's fetch can settle with when calls overlap
OverlapResponses ==
    << { Body("ok", Array(<<ItemA, ItemB>>)) },
       { Body("ok", Array(<<ItemAUpdated>>)), Body("ok", Array(<<ItemAUndated>>)) },
       { Body("ok", Array(<<ItemC>>)) },
       { Body("ok", Array(<<ItemD>>)) } >>

SettleFetchOverlapping(c, s) ==
    /\ pc[c] = "fetching"
    /\ responses[c][s] = Pending
    /\ \E r \in OverlapResponses[s] :
          responses' = [responses EXCEPT ![c][s] = r]
    /\ UNCHANGED <<localStorage, ticks, pc, stored, archived, merged, writes, outcome, returnedAt,
                   inFlightAtCall, returnedBefore, normalizerVars, paletteVars,
                   tickerVars, settleOrder>>

NextOverlapping ==
    \/ Tick
    \/ \E c \in Calls : StartCall(c)
    \/ \E c \in Calls, s \in Sources : SettleFetchOverlapping(c, s)
    \/ \E c \in Calls : Resume(c)

SpecOverlapping == Init /\ [][NextOverlapping]_vars

-----------------------------------------------------------------------------
(* Two calls, overlapping or one after the other, that are delivered the   *)
(* same article before and after the provider changed it                   *)

\* what each source's fetch can settle with
RefreshResponses ==
    << { Body("ok", Array(<<ItemA>>)), Body("ok", Array(<<ItemAUpdated>>)) },
       { FetchRejects },
       { Body("ok", Array(<<ItemC>>)) },
       { Body("ok", Array(<<ItemD>>)) } >>

SettleFetchRefreshing(c, s) ==
    /\ pc[c] = "fetching"
    /\ responses[c][s] = Pending
    /\ \E r \in RefreshResponses[s] :
          responses' = [responses EXCEPT ![c][s] = r]
    /\ UNCHANGED <<localStorage, ticks, pc, stored, archived, merged, writes, outcome, returnedAt,
                   inFlightAtCall, returnedBefore, normalizerVars, paletteVars,
                   tickerVars, settleOrder>>

NextRefreshing ==
    \/ Tick
    \/ \E c \in Calls : StartCall(c)
    \/ \E c \in Calls, s \in Sources : SettleFetchRefreshing(c, s)
    \/ \E c \in Calls : Resume(c)

SpecRefreshing == Init /\ [][NextRefreshing]_vars

-----------------------------------------------------------------------------
(* One call at a time, with the order in which its fetches settle on       *)
(* record (lines 89-96)                                                     *)

\* what each source's fetch can settle with
OrderedResponses ==
    << { FetchRejects, Body("ok", Array(<<ItemA, ItemB>>)) },
       { BadJson, Body("ok", Array(<<ItemAUpdated>>)) },
       { Body("ok", Array(<<ItemD>>)) },
       { Body("ok", Array(<<ItemC>>)), Body("ok", Array(<<ItemC, NullItem>>)) } >>

\* the fetch of source s settles, after those that settled before it
SettleFetchInTurn(c, s) ==
    /\ pc[c] = "fetching"
    /\ responses[c][s] = Pending
    /\ \E r \in OrderedResponses[s] :
          responses' = [responses EXCEPT ![c][s] = r]
    /\ settleOrder' = [settleOrder EXCEPT ![c] = Append(@, s)]
    /\ UNCHANGED <<localStorage, ticks, pc, stored, archived, merged, writes, outcome, returnedAt,
                   inFlightAtCall, returnedBefore, normalizerVars, paletteVars, tickerVars>>

NextInTurn ==
    \/ Tick
    \/ \E c \in SerialCalls : StartCall(c)
    \/ \E c \in SerialCalls, s \in Sources : SettleFetchInTurn(c, s)
    \/ \E c \in SerialCalls : Resume(c)

SpecInTurn == Init /\ [][NextInTurn]_vars

-----------------------------------------------------------------------------
(* The items.forEach callback applied to one item (101-138) *)

TitleFed == <<"F", "e", "d">>
TitleSoars == <<"G", "o", "l", "d", " ", "S", "O", "A", "R", "S">>
TitleSeller == <<"S", "e", "l", "l", "e", "r", " ", "s", "t", "r", "i", "k", "e">>
TitleWarsaw == <<"W", "a", "r", "s", "a", "w", " ", "i", "n", "d", "e", "x", " ", "f", "l", "a", "t">>
DescCrash == <<"<", "b", ">", "S", "t", "o", "c", "k", "s", " ", "c", "r", "a", "s", "h", "<", "/", "b", ">", "&", "n", "b", "s", "p", ";", "t", "o", "d", "a", "y">>
DescBulls == <<"B", "u", "l", "l", "s", " ", "b", "u", "y", " ", "t", "h", "e", " ", "d", "i", "p">>
DescHikes == <<"E", "C", "B", " ", "H", "i", "k", "e", "s">>

\* s repeated n times
RECURSIVE Repeat(_, _)
Repeat(s, n) == IF n = 0 THEN <<>> ELSE s \o Repeat(s, n - 1)

\* descriptions whose text without the tags has 250 and 260 characters
DescAtLimit == <<"<", "p", ">">> \o Repeat(<<"G", "o", "l", "d", " ">>, 50)
DescOverLimit == <<"<", "p", ">">> \o Repeat(<<"G", "o", "l", "d", " ">>, 52)

\* the item of the spec's normalization scenario; its pubDate parses
ScenarioTitle == <<"E", "U", "R", "/", "U", "S", "D", " ", "s", "o", "a", "r", "s", " ", "o", "n", " ", "h", "a", "w", "k", "i", "s", "h", " ", "F", "e", "d">>
ScenarioDescription == <<"<", "p", ">", "M", "a", "r", "k", "e", "t", "s", " ", "r", "a", "l", "l", "i", "e", "d", " ", "&", "n", "b", "s", "p", ";", "t", "o", "d", "a", "y", "<", "/", "p", ">">>
ScenarioLink == <<"h", "t", "t", "p", "s", ":", "/", "/", "x", ".", "c", "o", "m", "/", "a">>
ScenarioItem ==
    RawItem(Undefined, Str(ScenarioLink), Str(ScenarioTitle), Str(ScenarioDescription), PubRecent)

UrlThumb == <<"h", "t", "t", "p", "s", ":", "/", "/", "i", ".", "c", "o", "/", "t", ".", "p", "n", "g">>
UrlFeedburner == <<"h", "t", "t", "p", ":", "/", "/", "f", "e", "e", "d", "s", ".", "f", "e", "e", "d", "b", "u", "r", "n", "e", "r", ".", "c", "o", "m", "/", "x", ".", "g", "i", "f">>
UrlCapitals == <<"h", "t", "t", "p", ":", "/", "/", "F", "e", "e", "d", "B", "u", "r", "n", "e", "r", ".", "c", "o", "m", "/", "A", "d", "s", ".", "g", "i", "f">>
UrlUploads == <<"h", "t", "t", "p", "s", ":", "/", "/", "i", ".", "c", "o", "/", "u", "p", "l", "o", "a", "d", "s", "/", "a", ".", "p", "n", "g">>
UrlEnclosure == <<"h", "t", "t", "p", "s", ":", "/", "/", "i", ".", "c", "o", "/", "e", ".", "j", "p", "g">>
UrlAds == <<"h", "t", "t", "p", "s", ":", "/", "/", "a", "d", "s", ".", "n", "e", "t", "/", "b", ".", "g", "i", "f">>
UrlContent == <<"h", "t", "t", "p", "s", ":", "/", "/", "i", ".", "c", "o", "/", "c", ".", "p", "n", "g">>
UrlDescription == <<"h", "t", "t", "p", "s", ":", "/", "/", "i", ".", "c", "o", "/", "d", ".", "p", "n", "g">>
\* two src attributes, the first in single quotes
ContentTwoSrc ==
    <<"<", "i", "m", "g", " ", "s", "r", "c", "=", "'">> \o UrlContent \o <<"'", ">", "<", "i", "m", "g", " ", "s", "r", "c", "=", "\"">> \o UrlThumb \o <<"\"", ">">>
ContentEmptySrc == <<"<", "i", "m", "g", " ", "s", "r", "c", "=", "\"", "\"", ">">>
ContentNoSrc == <<"<", "p", ">", "s", "r", "c", "=", "n", "o", "n", "e", ",", " ", "\"", "q", "u", "o", "t", "e", "d", "\"", "<", "/", "p", ">">>
DescWithSrc == <<"<", "i", "m", "g", " ", "s", "r", "c", "=", "\"">> \o UrlDescription \o <<"\"", ">", " ", "Y", "e", "n">>

ItemThumbnails ==
    {Undefined, Str(<<>>), Str(UrlThumb), Str(UrlFeedburner), Str(UrlUploads), Str(UrlCapitals)}
ItemEnclosureLinks == {Undefined, Str(UrlEnclosure), Str(UrlAds)}
ItemContents == {Undefined, Str(ContentTwoSrc), Str(ContentEmptySrc), Str(ContentNoSrc)}

\* items that differ in where an image is to be found
ImageItems ==
    {[RawItem(guid, Undefined, title, description, PubNow)
         EXCEPT !.thumbnail = thumbnail, !.enclosureLink = enclosureLink, !.content = content] :
        guid \in {Undefined, Str(GuidA)}, title \in {Undefined, Str(<<>>), Str(TitleFed)},
        description \in {Undefined, Str(DescPlain), Str(DescWithSrc)},
        thumbnail \in ItemThumbnails, enclosureLink \in ItemEnclosureLinks,
        content \in ItemContents}

ItemGuids == {Undefined, Str(<<>>), Str(GuidA)}
ItemLinks == {Undefined, Str(LinkA)}
ItemTitles ==
    {Undefined, Str(TitleYen), Str(TitleFed), Str(TitleSoars), Str(TitleSeller), Str(TitleWarsaw)}
ItemDescriptions ==
    {Undefined, Str(DescPlain), Str(DescMarkup), Str(DescCrash), Str(DescBulls), Str(DescHikes),
     Str(DescAtLimit), Str(DescOverLimit)}

\* an item of an 'ok' result is handed to the callback; no call of
\* fetchMarketNews is under way besides
InitNormalizer ==
    /\ localStorage = NoEntry
    /\ ticks = 0
    /\ pc = [c \in Calls |-> "idle"]
    /\ responses = [c \in Calls |-> [s \in Sources |-> Pending]]
    /\ stored = [c \in Calls |-> NotReached]
    /\ archived = [c \in Calls |-> NotReached]
    /\ merged = [c \in Calls |-> NotReached]
    /\ writes = [c \in Calls |-> <<>>]
    /\ outcome = [c \in Calls |-> Unsettled]
    /\ returnedAt = [c \in Calls |-> 0]
    /\ inFlightAtCall = [c \in Calls |-> {}]
    /\ returnedBefore = [c \in Calls |-> {}]
    /\ settleOrder = [c \in Calls |-> <<>>]
    /\ feedItem \in {RawItem(guid, link, title, description, PubNow) :
                        guid \in ItemGuids, link \in ItemLinks, title \in ItemTitles,
                        description \in ItemDescriptions}
                    \cup {ScenarioItem} \cup ImageItems
    /\ feedSource \in Sources
    /\ feedItem \in ImageItems => feedSource = 1
    /\ article = NotReached
    /\ fallbackSeed = <<>> /\ placeholder = NotReached
    /\ news = <<>> /\ activeTickerIndex = 0

\* the callback runs on the item and pushes its article
NormalizeItem ==
    /\ article = NotReached
    /\ ~NormalizeThrows(feedItem)
    /\ article' = ClassifiedArticle(feedItem, FEED_SOURCES[feedSource])
    /\ UNCHANGED <<localStorage, ticks, pc, responses, stored, archived, merged, writes,
                   outcome, returnedAt, inFlightAtCall, returnedBefore, feedItem, feedSource,
                   paletteVars, tickerVars, settleOrder>>

NextNormalizer == NormalizeItem

SpecNormalizer == InitNormalizer /\ [][NextNormalizer]_vars

-----------------------------------------------------------------------------
(* getFallbackImage on its own (lines 47-53) *)

\* Seeds have at most this many characters.
MaxSeedLen == 7

\* The characters of the seeds: the lowest and the highest code of the
\* tables and a letter.
SeedChars == {" ", "z", "~"}

Seeds == UNION {[1..n -> SeedChars] : n \in 0..MaxSeedLen}

\* no call of fetchMarketNews is under way, no item is being normalized
InitIdle ==
    /\ localStorage = NoEntry
    /\ ticks = 0
    /\ pc = [c \in Calls |-> "idle"]
    /\ responses = [c \in Calls |-> [s \in Sources |-> Pending]]
    /\ stored = [c \in Calls |-> NotReached]
    /\ archived = [c \in Calls |-> NotReached]
    /\ merged = [c \in Calls |-> NotReached]
    /\ writes = [c \in Calls |-> <<>>]
    /\ outcome = [c \in Calls |-> Unsettled]
    /\ returnedAt = [c \in Calls |-> 0]
    /\ inFlightAtCall = [c \in Calls |-> {}]
    /\ returnedBefore = [c \in Calls |-> {}]
    /\ settleOrder = [c \in Calls |-> <<>>]
    /\ feedItem = NotReached /\ feedSource = 1 /\ article = NotReached

InitFallback ==
    /\ InitIdle
    /\ fallbackSeed \in Seeds
    /\ placeholder = NotReached
    /\ news = <<>> /\ activeTickerIndex = 0

\* getFallbackImage(fallbackSeed) is called and returns
GetFallbackImage ==
    /\ placeholder = NotReached
    /\ placeholder' = getFallbackImage(fallbackSeed)
    /\ UNCHANGED <<localStorage, ticks, pc, responses, stored, archived, merged, writes,
                   outcome, returnedAt, inFlightAtCall, returnedBefore, normalizerVars,
                   fallbackSeed, tickerVars, settleOrder>>

NextFallback == GetFallbackImage

SpecFallback == InitFallback /\ [][NextFallback]_vars

-----------------------------------------------------------------------------
(* The breaking ticker of the NewsFeed component (part_003, lines 18-69 and *)
(* 92-113)                                                                  *)

\* The news state holds at most this many articles.
MaxNews == 6

\* .slice(0, 5) (57)
TickerSize == 5

\* an article as the ticker reads it
TickerArticle(isBreaking) == [isBreaking |-> isBreaking]

\* the lists fetchMarketNews can resolve with
NewsLists == UNION {[1..n -> {TickerArticle(b) : b \in BOOLEAN}] : n \in 0..MaxNews}

\* const tickerNews = news.filter(n => n.isBreaking).slice(0, 5) (57)
tickerNews == Slice0(SelectSeq(news, LAMBDA n : n.isBreaking), TickerSize)

\* the ticker is part of the render (92)
TickerRendered == Len(tickerNews) > 0

\* tickerNews[activeTickerIndex] is undefined and reading its headline (106)
\* raises a TypeError during render: the component is unmounted
RenderThrows == TickerRendered /\ activeTickerIndex >= Len(tickerNews)

\* useState([]) and useState(0) (18, 21)
InitTicker ==
    /\ InitIdle
    /\ fallbackSeed = <<>> /\ placeholder = NotReached
    /\ news = <<>>
    /\ activeTickerIndex = 0

\* fetchNews: the call of fetchMarketNews resolved and setNews(articles) runs
\* (28-29); the mount and the 60 s interval call it (37-41)
SetNews ==
    /\ ~RenderThrows
    /\ \E articles \in NewsLists : news' = articles
    /\ UNCHANGED <<localStorage, ticks, pc, responses, stored, archived, merged, writes,
                   outcome, returnedAt, inFlightAtCall, returnedBefore, settleOrder,
                   normalizerVars, paletteVars, activeTickerIndex>>

\* the 5 s interval of the auto-scroll effect fires; the effect sets no
\* interval when tickerNews is empty (60-66)
AutoScroll ==
    /\ ~RenderThrows
    /\ Len(tickerNews) # 0
    /\ activeTickerIndex' = (activeTickerIndex + 1) % Len(tickerNews)
    /\ UNCHANGED <<localStorage, ticks, pc, responses, stored, archived, merged, writes,
                   outcome, returnedAt, inFlightAtCall, returnedBefore, settleOrder,
                   normalizerVars, paletteVars, news>>

\* a click on the right button of the ticker (68, 113)
nextTicker ==
    /\ ~RenderThrows
    /\ TickerRendered
    /\ activeTickerIndex' = (activeTickerIndex + 1) % Len(tickerNews)
    /\ UNCHANGED <<localStorage, ticks, pc, responses, stored, archived, merged, writes,
                   outcome, returnedAt, inFlightAtCall, returnedBefore, settleOrder,
                   normalizerVars, paletteVars, news>>

\* a click on the left button of the ticker (69, 111)
prevTicker ==
    /\ ~RenderThrows
    /\ TickerRendered
    /\ activeTickerIndex' = (activeTickerIndex - 1 + Len(tickerNews)) % Len(tickerNews)
    /\ UNCHANGED <<localStorage, ticks, pc, responses, stored, archived, merged, writes,
                   outcome, returnedAt, inFlightAtCall, returnedBefore, settleOrder,
                   normalizerVars, paletteVars, news>>

NextTicker ==
    \/ SetNews
    \/ AutoScroll
    \/ nextTicker
    \/ prevTicker

SpecTicker == InitTicker /\ [][NextTicker]_vars

-----------------------------------------------------------------------------
(* Vocabulary of the properties *)

\* a >= b on Numbers
NumGe(a, b) == a # NaN /\ b # NaN /\ a >= b

Elems(list) == {list[i] : i \in DOMAIN list}
IdsOf(list) == {list[i].id : i \in DOMAIN list}

HasReturned(c) == pc[c] = "returned"
ReturnedAList(c) == outcome[c].t = "resolved" /\ outcome[c].value.t = "array"
ReturnedList(c) == outcome[c].value.a

IsStoredList(text) == text.t = "string" /\ text.json.t = "array"
\* the articles a storage value holds
ArticlesIn(text) == IF IsStoredList(text) THEN Elems(text.json.a) ELSE {}

\* the storage value a call leaves behind: its last successful write, else
\* what it found
StorageAfter(c) ==
    IF \E i \in DOMAIN writes[c] : writes[c][i].ok
    THEN writes[c][CHOOSE i \in DOMAIN writes[c] :
                      writes[c][i].ok /\ \A j \in DOMAIN writes[c] : writes[c][j].ok => j <= i].value
    ELSE stored[c]

\* the retention cutoff at the time the call returned
CutoffOf(c) == returnedAt[c] - ONE_WEEK_MS

\* the source's fetch failed as a whole: it rejected, its body is no JSON, its
\* status is not 'ok', or it has no items field
SourceFailed(r) ==
    \/ r.t \in {"rejected", "badjson"}
    \/ r.t = "json" /\ (r.status # "ok" \/ r.items = Undefined)

\* the items of a response that can be normalized
NormalizableItems(r) ==
    IF r.t = "json" /\ r.status = "ok" /\ r.items.t = "array"
    THEN SelectSeq(r.items.a, LAMBDA item : ~NormalizeThrows(item))
    ELSE <<>>

\* an item of an 'ok' response of the call that cannot be normalized
HasBadItem(c) ==
    \E s \in Sources :
        LET r == responses[c][s]
        IN  /\ r.t = "json" /\ r.status = "ok" /\ r.items.t = "array"
            /\ \E i \in DOMAIN r.items.a : NormalizeThrows(r.items.a[i])

IntendedOf(c, s) ==
    LET items == NormalizableItems(responses[c][s])
    IN  [i \in DOMAIN items |-> Normalize(items[i], FEED_SOURCES[s])]

\* the fresh set the cycle is meant to produce: every item that can be
\* normalized, of every source that answered 'ok', in FEED_SOURCES order
IntendedFresh(c) ==
    IntendedOf(c, 1) \o IntendedOf(c, 2) \o IntendedOf(c, 3) \o IntendedOf(c, 4)

\* the copy of an id delivered last
LastCopy(list, id) ==
    list[CHOOSE i \in DOMAIN list :
            list[i].id = id /\ \A j \in DOMAIN list : list[j].id = id => j <= i]

\* the fresh articles due in the returned list: the last copy of each id, when
\* it is inside the retention window
DueFresh(c) ==
    {a \in Elems(IntendedFresh(c)) :
        a = LastCopy(IntendedFresh(c), a.id) /\ Retained(a, CutoffOf(c))}

NoDuplicateIds(list) ==
    \A i, j \in DOMAIN list : list[i].id = list[j].id => i = j

SortedDescending(list) ==
    \A i \in DOMAIN list :
        i < Len(list) => NumGe(list[i].publishedAt, list[i + 1].publishedAt)

\* the call saved by the truncated retry
TruncatedSave(c) == Len(writes[c]) = 2 /\ writes[c][2].ok
\* both writes of the call failed
BothWritesFailed(c) == Len(writes[c]) = 2 /\ ~writes[c][1].ok /\ ~writes[c][2].ok

-----------------------------------------------------------------------------
(* Properties *)

\* C1: whatever the feeds answer, whatever is stored and whichever writes
\* fail, a call of fetchMarketNews resolves with a list; it never rejects.
C1_AlwaysResolvesWithAList ==
    \A c \in Calls : HasReturned(c) => ReturnedAList(c)

\* C2: when a source's fetch fails as a whole, that source contributes no
\* article and the items of the sources that answered 'ok' are in the
\* returned list all the same (subject to retention).
C2_FailedSourceIsIsolated ==
    \A c \in Calls : \A s \in Sources :
        (HasReturned(c) /\ SourceFailed(responses[c][s])) =>
            /\ ArticlesOf([x \in Sources |-> SettledResult(responses[c][x])], s) = <<>>
            /\ \A a \in DueFresh(c) :
                  ReturnedAList(c) /\ a.id \in IdsOf(ReturnedList(c))

\* C3: when an item of an 'ok' response cannot be normalized, only that item
\* is dropped; every other item of the cycle is in the returned list.
C3_BadItemIsIsolated ==
    \A c \in Calls :
        (HasReturned(c) /\ HasBadItem(c)) =>
            \A a \in DueFresh(c) : ReturnedAList(c) /\ a \in Elems(ReturnedList(c))

\* C4: every article of a returned list is inside the retention window at
\* the time of the return, on the normal path and on the fallback path.
C4_ReturnedWithinRetention ==
    \A c \in Calls :
        (HasReturned(c) /\ ReturnedAList(c)) =>
            \A a \in Elems(ReturnedList(c)) : NumGe(a.publishedAt, CutoffOf(c))

\* C5: every returned list is ordered by publishedAt descending, whatever
\* order the fetches settled in.
C5_ReturnedSortedDescending ==
    \A c \in Calls :
        (HasReturned(c) /\ ReturnedAList(c)) => SortedDescending(ReturnedList(c))

\* C5 witness: a call returned a list of three articles or more that the
\* sort had to reorder.
C5_Witness ==
    \E c \in Calls :
        /\ HasReturned(c) /\ ReturnedAList(c) /\ merged[c] # NotReached
        /\ Len(ReturnedList(c)) >= 3
        /\ ReturnedList(c) = merged[c].a
        /\ ReturnedList(c) #
              FilterRetained(
                  MergeArticles(archived[c].a,
                                FreshArticles([s \in Sources |-> SettledResult(responses[c][s])])),
                  CutoffOf(c))

\* C6: after the merge no two articles share an id: not in mergedArticles,
\* not in the returned list, not in the persisted archive.
C6_NoDuplicateIds ==
    /\ IsStoredList(localStorage) => NoDuplicateIds(localStorage.json.a)
    /\ \A c \in Calls :
          /\ merged[c] # NotReached => NoDuplicateIds(merged[c].a)
          /\ (HasReturned(c) /\ ReturnedAList(c)) => NoDuplicateIds(ReturnedList(c))

\* C6 witness: one id was in the archive, came twice from one source and
\* once more from another, and the call returned and saved its merged list.
C6_Witness ==
    \E c \in Calls :
        /\ HasReturned(c) /\ merged[c] # NotReached
        /\ ReturnedAList(c) /\ ReturnedList(c) = merged[c].a
        /\ localStorage = JSONstringify(merged[c].a)
        /\ LET results == [s \in Sources |-> SettledResult(responses[c][s])]
           IN  \E id \in IdsOf(archived[c].a) :
                  /\ Cardinality({i \in DOMAIN ArticlesOf(results, 2) :
                                     ArticlesOf(results, 2)[i].id = id}) >= 2
                  /\ id \in IdsOf(ArticlesOf(results, 1))
                  /\ id \in IdsOf(merged[c].a)

\* C7: for an id present both in the loaded archive and in the fresh set, the
\* merged article with that id is the fresh copy (the one delivered last),
\* not the archived one.
C7_MergeFavorsFresh ==
    \A c \in Calls :
        merged[c] # NotReached =>
            LET fresh == FreshArticles([s \in Sources |-> SettledResult(responses[c][s])])
            IN  \A m \in Elems(merged[c].a) :
                    (m.id \in IdsOf(archived[c].a) /\ m.id \in IdsOf(fresh)) =>
                        m = LastCopy(fresh, m.id)

\* C7 witness: the archived copy and the fresh copy of an id differ, and the
\* merged list holds the fresh one.
C7_Witness ==
    \E c \in Calls :
        /\ merged[c] # NotReached
        /\ LET fresh == FreshArticles([s \in Sources |-> SettledResult(responses[c][s])])
           IN  \E m \in Elems(merged[c].a), a \in Elems(archived[c].a) :
                  /\ a.id = m.id /\ a # m
                  /\ m \in Elems(fresh)

\* C8: an article of the persisted archive that the cycle's fetches do not
\* deliver stays in the returned list and in the persisted archive, unless it
\* has left the retention window or the save fell back to the truncated
\* write; so an archived article that is gone after a cycle was re-fetched,
\* had left the window, or was cut by the truncation.
C8_ArchivedArticlePreserved ==
    \A c \in Calls :
        HasReturned(c) =>
            \A a \in ArticlesIn(stored[c]) :
                ( /\ a.id \notin IdsOf(IntendedFresh(c))
                  /\ Retained(a, CutoffOf(c))
                  /\ ~TruncatedSave(c) ) =>
                      /\ ReturnedAList(c) /\ a \in Elems(ReturnedList(c))
                      /\ a \in ArticlesIn(StorageAfter(c))
                      /\ (c \in SerialCalls => a \in ArticlesIn(localStorage))

\* C8 witness: a call merged fresh articles into an archive holding an
\* article no source delivered; it saved, and the article is still there.
C8_Witness ==
    \E c \in Calls :
        /\ HasReturned(c) /\ merged[c] # NotReached
        /\ Len(writes[c]) = 1 /\ writes[c][1].ok
        /\ IntendedFresh(c) # <<>>
        /\ \E a \in ArticlesIn(stored[c]) :
              /\ a.id \notin IdsOf(IntendedFresh(c))
              /\ a \in Elems(ReturnedList(c))
              /\ a \in ArticlesIn(localStorage)
        /\ ArticlesIn(localStorage) # ArticlesIn(stored[c])

\* C9: an article of the merged map is kept exactly when its publishedAt is
\* strictly newer than now - 7 days; an archived article that is older and is
\* not re-fetched is absent from the returned list and, once the save
\* succeeds, from the persisted archive, so that every saved article is
\* inside the window at the time of the save.
C9_RetentionPruning ==
    \A c \in Calls :
        HasReturned(c) =>
            /\ merged[c] # NotReached =>
                  Elems(merged[c].a) =
                      {a \in Elems(MergeArticles(archived[c].a,
                              FreshArticles([s \in Sources |-> SettledResult(responses[c][s])]))) :
                          NumGt(a.publishedAt, CutoffOf(c))}
            /\ \A a \in ArticlesIn(stored[c]) :
                  (~NumGt(a.publishedAt, CutoffOf(c)) /\ a.id \notin IdsOf(IntendedFresh(c))) =>
                      /\ ReturnedAList(c) => a \notin Elems(ReturnedList(c))
                      /\ (\E i \in DOMAIN writes[c] : writes[c][i].ok) =>
                            a \notin ArticlesIn(StorageAfter(c))
            /\ \A i \in DOMAIN writes[c] :
                  writes[c][i].ok =>
                      \A a \in ArticlesIn(writes[c][i].value) : NumGt(a.publishedAt, CutoffOf(c))

\* C10: when the first write and the truncated retry both fail, the call
\* still returns the full merged list of the cycle.
C10_ReturnsMergedWhenBothWritesFail ==
    \A c \in Calls :
        (HasReturned(c) /\ BothWritesFailed(c)) =>
            ReturnedAList(c) /\ ReturnedList(c) = merged[c].a

-----------------------------------------------------------------------------
(* What holds of the paths on which nothing is thrown *)

\* the call ran to line 176
ReturnedAtLine176(c) ==
    HasReturned(c) /\ merged[c] # NotReached /\ ~BothWritesFailed(c)

\* The call returns mergedArticles, every article of which is strictly
\* newer than the cutoff.
NormalPathWithinRetention ==
    \A c \in Calls :
        ReturnedAtLine176(c) =>
            /\ ReturnedAList(c) /\ ReturnedList(c) = merged[c].a
            /\ \A a \in Elems(ReturnedList(c)) : NumGt(a.publishedAt, CutoffOf(c))

\* Every due fresh article is in the returned list, whichever sources failed.
NormalPathDeliversFresh ==
    \A c \in Calls :
        ReturnedAtLine176(c) =>
            \A a \in DueFresh(c) : a \in Elems(ReturnedList(c))

\* Every list a call saved holds only articles strictly newer than its cutoff.
SavedWithinRetention ==
    \A c \in Calls :
        HasReturned(c) =>
            \A i \in DOMAIN writes[c] :
                writes[c][i].ok =>
                    \A a \in ArticlesIn(writes[c][i].value) : NumGt(a.publishedAt, CutoffOf(c))

-----------------------------------------------------------------------------
(* The save and its failures (166-183) *)

\* the first setItem of the call raised
FirstWriteFailed(c) == writes[c] # <<>> /\ ~writes[c][1].ok

\* text is the stored form of the first n articles of list, which are the n
\* most recent of it, newest first
HoldsMostRecent(text, list, n) ==
    /\ IsStoredList(text)
    /\ Len(text.json.a) = n
    /\ \A i \in 1..n : text.json.a[i] = JsonArticle(list[i])
    /\ SortedDescending(text.json.a)
    /\ \A i \in 1..n : \A j \in (n + 1)..Len(list) :
          NumGe(list[i].publishedAt, list[j].publishedAt)

\* C11: when the first write of the merged list fails, exactly one retry is
\* attempted, with the list cut to its most recent articles up to the limit;
\* when the retry succeeds the archive holds exactly those, newest first, and
\* the caller gets the full merged list.
C11_FirstWriteFailureRetriesOnce ==
    \A c \in Calls :
        (HasReturned(c) /\ FirstWriteFailed(c)) =>
            /\ Len(writes[c]) = 2
            /\ writes[c][2].ok =>
                  /\ HoldsMostRecent(writes[c][2].value, merged[c].a,
                                     IF Len(merged[c].a) < TrimLimit
                                     THEN Len(merged[c].a) ELSE TrimLimit)
                  /\ ReturnedAList(c) /\ ReturnedList(c) = merged[c].a

\* C11, amended: the retry is attempted only when the merged list is longer
\* than the limit.  Then exactly one retry is made, with the list cut to its
\* most recent articles up to the limit; when it succeeds the archive holds
\* exactly those, newest first, and the caller gets the full merged list.
\* When the merged list is not longer than the limit, the failed write is the
\* only one, the archive keeps what it held and the caller gets the merged
\* list.
C11_RetriesOnceWhenLongerThanLimit ==
    \A c \in Calls :
        (HasReturned(c) /\ FirstWriteFailed(c)) =>
            IF Len(merged[c].a) > TrimLimit
            THEN /\ Len(writes[c]) = 2
                 /\ writes[c][2].value # writes[c][1].value
                 /\ HoldsMostRecent(writes[c][2].value, merged[c].a, TrimLimit)
                 /\ writes[c][2].ok =>
                       /\ c \in SerialCalls => localStorage = writes[c][2].value
                       /\ ReturnedAList(c) /\ ReturnedList(c) = merged[c].a
            ELSE /\ Len(writes[c]) = 1
                 /\ c \in SerialCalls => localStorage = stored[c]
                 /\ ReturnedAList(c) /\ ReturnedList(c) = merged[c].a

\* C11 witness: the first write failed, the retry saved the cut list, and the
\* caller got a longer list than the one saved.
C11_Witness ==
    \E c \in Calls :
        /\ HasReturned(c) /\ FirstWriteFailed(c)
        /\ Len(writes[c]) = 2 /\ writes[c][2].ok
        /\ localStorage = writes[c][2].value
        /\ ReturnedAList(c) /\ Len(ReturnedList(c)) > Len(localStorage.json.a)

\* an exception reached the top-level catch (178): thrown by the forEach
\* loops, by the merge of a stored value that is no array, or by the retry
TookCatchBlock(c) ==
    HasReturned(c) /\ (merged[c] = NotReached \/ BothWritesFailed(c))

\* C12: whenever an exception reaches the top-level catch, the call returns
\* the articles the persisted archive holds at that time, and the empty list
\* when nothing is stored or the stored value cannot be read as a list.
C12_FallbackReturnsArchive ==
    \A c \in Calls :
        TookCatchBlock(c) =>
            /\ ReturnedAList(c)
            /\ ReturnedList(c) =
                  IF IsStoredList(stored[c]) THEN stored[c].json.a ELSE <<>>

\* C13: a stored value that cannot be read as a list of articles counts as
\* an empty archive: the call returns exactly the fresh set of the cycle,
\* filtered by retention and sorted, a successful save replaces the stored
\* value by that list, and the call does not reject.
C13_CorruptArchiveLoadsAsEmpty ==
    \A c \in Calls :
        (HasReturned(c) /\ stored[c] # NoEntry /\ ~IsStoredList(stored[c])) =>
            /\ ReturnedAList(c)
            /\ ReturnedList(c) = MergedArticles(<<>>, IntendedFresh(c), returnedAt[c])
            /\ (writes[c] # <<>> /\ writes[c][1].ok) =>
                  StorageAfter(c) = JSONstringify(ReturnedList(c))

\* What holds of C13 where the stored text is no JSON and nothing else is
\* thrown: the inner catch (146-148) leaves archivedArticles empty, and the
\* call returns and saves the fresh set alone.
UnparseableArchiveLoadsAsEmpty ==
    \A c \in Calls :
        (ReturnedAtLine176(c) /\ stored[c] = StoredText(Unparseable)) =>
            /\ archived[c] = EmptyArray
            /\ ReturnedAList(c)
            /\ ReturnedList(c) = MergedArticles(<<>>, IntendedFresh(c), returnedAt[c])
            /\ writes[c][1].ok => localStorage = JSONstringify(ReturnedList(c))

-----------------------------------------------------------------------------
(* Items without a usable pubDate (115, 129, 162) *)

\* the articles of a list whose publishedAt is a number
Dated(list) == SelectSeq(list, LAMBDA a : a.publishedAt # NaN)

\* an item of the cycle that can be normalized has no pubDate that parses
HasUndatedItem(c) == \E a \in Elems(IntendedFresh(c)) : a.publishedAt = NaN

\* C14, on the paths where nothing is thrown: an item whose pubDate is
\* missing or does not parse is in neither the returned list nor the saved
\* archive, and the returned list is the one the cycle would have produced
\* without that item: the other items are unaffected.
C14_UndatedItemIsExcluded ==
    \A c \in Calls :
        (ReturnedAtLine176(c) /\ HasUndatedItem(c)) =>
            /\ \A a \in Elems(ReturnedList(c)) : a.publishedAt # NaN
            /\ \A a \in ArticlesIn(StorageAfter(c)) : a.publishedAt \notin {NaN, 0}
            /\ ReturnedList(c) =
                  MergedArticles(archived[c].a, Dated(IntendedFresh(c)), returnedAt[c])

\* What holds of C14: an article without a publishedAt is never returned and
\* never saved, on any path.
UndatedArticleNeverReturnedNorSaved ==
    /\ \A a \in ArticlesIn(localStorage) : a.publishedAt \notin {NaN, 0}
    /\ \A c \in Calls :
          (HasReturned(c) /\ ReturnedAList(c)) =>
              \A a \in Elems(ReturnedList(c)) : a.publishedAt \notin {NaN, 0}

-----------------------------------------------------------------------------
(* Overlapping cycles *)

\* one of the two calls was made while the other was suspended at the await
Overlapped(c, d) == d \in inFlightAtCall[c] \/ c \in inFlightAtCall[d]

\* the first setItem of the call stored the whole merged list
SavedInFull(c) == writes[c] # <<>> /\ writes[c][1].ok

\* calls c and d overlapped, both returned, both saved their merged list in
\* full, and c finished last
BothSavedLast(c, d) ==
    /\ c # d /\ HasReturned(c) /\ HasReturned(d)
    /\ Overlapped(c, d)
    /\ d \in returnedBefore[c]
    /\ SavedInFull(c) /\ SavedInFull(d)

\* C15: when two calls overlap and both complete with a successful save of
\* their merged list, the archive then holds every article either call
\* saved that is still inside the retention window: the save of the call
\* that finishes last removes no article the other call saved.
C15_NoLostUpdate ==
    \A c, d \in Calls :
        BothSavedLast(c, d) =>
            \A a \in ArticlesIn(StorageAfter(d)) \cup ArticlesIn(StorageAfter(c)) :
                Retained(a, CutoffOf(c)) => a.id \in IdsOf(localStorage.json.a)

\* What holds of C15: the call that finishes last loads what the other call
\* saved, and keeps every retained article of it unless it fetched an item
\* of the same id whose pubDate does not parse.
LastSaveBuildsOnTheOther ==
    \A c, d \in Calls :
        BothSavedLast(c, d) =>
            /\ stored[c] = StorageAfter(d)
            /\ localStorage = StorageAfter(c)
            /\ \A a \in ArticlesIn(StorageAfter(d)) :
                  (Retained(a, CutoffOf(c)) /\ a.id \notin IdsOf(localStorage.json.a)) =>
                      \E f \in Elems(IntendedFresh(c)) : f.id = a.id /\ f.publishedAt = NaN

-----------------------------------------------------------------------------
(* The join on the fetches (88-97) *)

\* C16: the call joins on all its fetches: it has neither read the archive
\* nor settled while a fetch of it is pending; and the call that ran on
\* after every fetch settled has returned a list.
C16_JoinsThenReturnsAList ==
    \A c \in Calls :
        /\ (stored[c] # NotReached \/ outcome[c] # Unsettled) => AllSettled(c)
        /\ HasReturned(c) => ReturnedAList(c)

\* What holds of C16: the archive is not read and the call does not settle
\* before every fetch has settled.
JoinsOnAllFetches ==
    \A c \in Calls :
        (stored[c] # NotReached \/ outcome[c] # Unsettled) => AllSettled(c)

\* What holds of C16: every fetch of a call is pending from the moment the
\* call is made.
AllFetchesIssuedAtCall ==
    [][\A c \in Calls :
          (pc[c] # "fetching" /\ pc'[c] = "fetching") =>
              \A s \in Sources : responses'[c][s] = Pending]_vars

-----------------------------------------------------------------------------
(* Classification and id of a single article *)

\* keyword kw occurs in text at position i, whatever the case of the letters
\* of text
OccursAt(kw, text, i) ==
    /\ i + Len(kw) - 1 <= Len(text)
    /\ \A k \in 1..Len(kw) : LowerChar(text[i + k - 1]) = kw[k]

\* some keyword of the list occurs somewhere in text, inside a word or not
AnyOccurs(list, text) ==
    \E n \in DOMAIN list : \E i \in DOMAIN text : OccursAt(list[n], text, i)

\* headline, a space, and the cleaned summary of the article
HeadlineAndSummary(a) == StringOf(a.headline) \o <<" ">> \o a.summary

\* C17: the sentiment is Bullish when a bullish keyword occurs in the text,
\* whatever the case; otherwise Bearish when a bearish keyword occurs;
\* otherwise Neutral.  So the bullish list wins when both lists match.
C17_SentimentByKeyword ==
    article # NotReached =>
        article.sentiment =
            IF AnyOccurs(bullish, TextContent(feedItem)) THEN "Bullish"
            ELSE IF AnyOccurs(bearish, TextContent(feedItem)) THEN "Bearish"
            ELSE "Neutral"

\* C17 witness: keywords of both lists occur in the text of an item, and its
\* article is Bullish.
C17_Witness ==
    /\ article # NotReached
    /\ AnyOccurs(bullish, TextContent(feedItem))
    /\ AnyOccurs(bearish, TextContent(feedItem))
    /\ article.sentiment = "Bullish"

\* C18: isBreaking is true exactly when a high-impact term occurs, whatever
\* the case and inside a word or not, in the headline followed by a space and
\* the cleaned summary.
C18_BreakingByKeyword ==
    article # NotReached =>
        (article.isBreaking <=> AnyOccurs(highImpactKeywords, HeadlineAndSummary(article)))

\* C18 witness: an article is breaking although no term occurs in its text
\* as written: the match needed the lower-casing.
C18_Witness ==
    /\ article # NotReached
    /\ article.isBreaking
    /\ \A n \in DOMAIN highImpactKeywords :
          ~Includes(HeadlineAndSummary(article), highImpactKeywords[n])

\* a guid or link the item has: a string that is not empty
Present(v) == IsString(v) /\ v.s # <<>>

\* C19: the id is the guid when the item has one, otherwise the link,
\* otherwise source name, "-" and title; it is never empty.
C19_IdByPriority ==
    article # NotReached =>
        /\ article.id # <<>>
        /\ article.id =
              IF Present(feedItem.guid) THEN feedItem.guid.s
              ELSE IF Present(feedItem.link) THEN feedItem.link.s
              ELSE FEED_SOURCES[feedSource].sourceName \o <<"-">> \o StringOf(feedItem.title)

\* C19 witness: an item without guid, link and title got an id all the same,
\* longer than the source name.
C19_Witness ==
    /\ article # NotReached
    /\ feedItem.guid = Undefined /\ feedItem.link = Undefined
    /\ feedItem.title = Undefined
    /\ Len(article.id) > Len(FEED_SOURCES[feedSource].sourceName)

-----------------------------------------------------------------------------
(* Image of a single article (102-120) *)

PaletteUrls == {Str(FALLBACK_IMAGES[i]) : i \in DOMAIN FALLBACK_IMAGES}

\* text has a src attribute from position i to the closing quote at j: src=,
\* a quote, a value without quotes, a quote
SrcAttribute(text, i, j) ==
    /\ i >= 1 /\ i + 4 < j /\ j <= Len(text)
    /\ SubSeq(text, i, i + 4) \in {SrcEquals \o <<q>> : q \in Quotes}
    /\ text[j] \in Quotes
    /\ \A k \in (i + 5)..(j - 1) : text[k] \notin Quotes

HasSrc(v) ==
    IsString(v) /\ \E i, j \in DOMAIN v.s : SrcAttribute(v.s, i, j)

\* the value of the first src attribute of a text that has one
FirstSrc(v) ==
    LET at == CHOOSE p \in (DOMAIN v.s) \X (DOMAIN v.s) :
                  /\ SrcAttribute(v.s, p[1], p[2])
                  /\ \A i, j \in DOMAIN v.s : SrcAttribute(v.s, i, j) => p[1] <= i
    IN  SubSeq(v.s, at[1] + 5, at[2] - 1)

\* the URL the extraction chain finds, the empty string when it finds none
ResolvedUrl(item) ==
    IF Present(item.thumbnail) THEN item.thumbnail.s
    ELSE IF Present(item.enclosureLink) THEN item.enclosureLink.s
    ELSE IF HasSrc(item.content) THEN FirstSrc(item.content)
    ELSE IF HasSrc(item.description) THEN FirstSrc(item.description)
    ELSE <<>>

\* word stands in url from position i on, letter for letter
StandsAt(word, url, i) ==
    /\ i + Len(word) - 1 <= Len(url)
    /\ \A k \in DOMAIN word : url[i + k - 1] = word[k]

LowQuality(url) ==
    \/ \E i \in DOMAIN url : StandsAt(Feedburner, url, i)
    \/ \E i \in DOMAIN url : StandsAt(Ads, url, i)

\* the seed of the placeholder: the title, else the id
PlaceholderSeed(item, id) == IF Present(item.title) THEN item.title.s ELSE id

\* C23: the imageUrl is the thumbnail, else the enclosure link, else the
\* first src attribute of content, else that of description; when there is
\* none or the URL is of low quality, it is the placeholder selected by the
\* title, else by the id.  It is never empty.
C23_ImageUrlByPriority ==
    article # NotReached =>
        /\ Present(article.imageUrl)
        /\ article.imageUrl.s =
              IF ResolvedUrl(feedItem) = <<>> \/ LowQuality(ResolvedUrl(feedItem))
              THEN FALLBACK_IMAGES[
                       1 + AbsMod(HashUpTo(PlaceholderSeed(feedItem, article.id),
                                           Len(PlaceholderSeed(feedItem, article.id))), 7)]
              ELSE ResolvedUrl(feedItem)

\* an item with thumbnail and enclosure link got the thumbnail
C23_Witness ==
    /\ article # NotReached
    /\ Present(feedItem.thumbnail) /\ Present(feedItem.enclosureLink)
    /\ feedItem.thumbnail # feedItem.enclosureLink
    /\ article.imageUrl = feedItem.thumbnail

\* each link of the chain is taken by some item, and each way to the
\* placeholder
ImageFromEnclosure ==
    article # NotReached /\ ~Present(feedItem.thumbnail)
        /\ article.imageUrl = Str(UrlEnclosure)
ImageFromContent ==
    article # NotReached /\ article.imageUrl = Str(UrlContent) /\ HasSrc(feedItem.description)
ImageFromDescription ==
    article # NotReached /\ article.imageUrl = Str(UrlDescription)
        /\ feedItem.content = Str(ContentNoSrc)
PlaceholderForNone ==
    article # NotReached /\ ResolvedUrl(feedItem) = <<>>
        /\ feedItem.title = Undefined /\ article.imageUrl \in PaletteUrls
PlaceholderForLowQuality ==
    article # NotReached /\ feedItem.thumbnail = Str(UrlUploads)
        /\ article.imageUrl \in PaletteUrls
PlaceholderForEmptySrc ==
    article # NotReached /\ feedItem.content = Str(ContentEmptySrc)
        /\ HasSrc(feedItem.description) /\ ~Present(feedItem.thumbnail)
        /\ ~Present(feedItem.enclosureLink) /\ article.imageUrl \in PaletteUrls

-----------------------------------------------------------------------------
(* Summary of a single article (110-112) *)

\* the description without its tags and with &nbsp; replaced
CleanedDescription(item) == ReplaceNbsp(StripTags(item.description.s))

\* C21: the summary is the cleaned description, cut to 250 characters; the
\* ellipsis is appended only when the cleaned text was longer than that.
C21_EllipsisOnlyWhenTruncated ==
    (article # NotReached /\ Truthy(feedItem.description)) =>
        article.summary =
            IF Len(CleanedDescription(feedItem)) > SUMMARY_LIMIT
            THEN SubSeq(CleanedDescription(feedItem), 1, SUMMARY_LIMIT) \o Ellipsis
            ELSE CleanedDescription(feedItem)

\* What holds of C21: the summary is the first 250 characters of the cleaned
\* description followed by the ellipsis, whatever the length of the cleaned
\* text; an item without description has an empty summary.
SummaryIsCutAndAlwaysMarked ==
    article # NotReached =>
        IF Truthy(feedItem.description)
        THEN /\ Len(article.summary) <= SUMMARY_LIMIT + Len(Ellipsis)
             /\ \E n \in 0..SUMMARY_LIMIT :
                   /\ n = Len(article.summary) - Len(Ellipsis)
                   /\ SubSeq(article.summary, 1, n) = SubSeq(CleanedDescription(feedItem), 1, n)
                   /\ SubSeq(article.summary, n + 1, n + Len(Ellipsis)) = Ellipsis
                   /\ n < SUMMARY_LIMIT => n = Len(CleanedDescription(feedItem))
        ELSE article.summary = <<>>

ScenarioSummary == <<"M", "a", "r", "k", "e", "t", "s", " ", "r", "a", "l", "l", "i", "e", "d", " ", "t", "o", "d", "a", "y">>

\* C22: the scenario item normalizes to an article that is Bullish and
\* breaking, whose summary is "Markets rallied today" and whose id is the
\* link.
C22_ScenarioArticle ==
    (article # NotReached /\ feedItem = ScenarioItem) =>
        /\ article.sentiment = "Bullish"
        /\ article.isBreaking
        /\ article.summary = ScenarioSummary
        /\ article.id = ScenarioLink

\* What holds of C22: sentiment, isBreaking and id are as stated; the
\* summary keeps the space before the entity beside the one that replaces
\* it, and ends with the ellipsis.
ScenarioArticleAsComputed ==
    (article # NotReached /\ feedItem = ScenarioItem) =>
        /\ article.sentiment = "Bullish"
        /\ article.isBreaking
        /\ article.id = ScenarioLink
        /\ article.summary = <<"M", "a", "r", "k", "e", "t", "s", " ", "r", "a", "l", "l", "i", "e", "d", " ", " ", "t", "o", "d", "a", "y", ".", ".", ".">>

-----------------------------------------------------------------------------
(* Placeholder images (37-53) *)

\* the hash the loop of getFallbackImage ends with
FinalHash == HashUpTo(fallbackSeed, Len(fallbackSeed))

\* the hash has left the range of signed 32-bit integers
OutsideInt32(hash) == hash.hi >= Limb \div 2 \/ hash.hi < 0 - (Limb \div 2)

\* C30: for every seed, the empty one and those whose hash turns negative or
\* leaves 32 bits included, getFallbackImage returns one of the 7 palette
\* URLs, the one at index abs(hash) mod 7, which lies in 0..6.
C30_PlaceholderInPalette ==
    placeholder # NotReached =>
        /\ placeholder \in PaletteUrls
        /\ \E index \in 0..6 :
              /\ index = AbsMod(FinalHash, 7)
              /\ placeholder = Str(FALLBACK_IMAGES[index + 1])

\* a placeholder was returned for a seed whose hash is negative and outside
\* 32 bits
C30_Witness ==
    /\ placeholder # NotReached
    /\ IsNegative(FinalHash) /\ OutsideInt32(FinalHash)

\* the empty seed selects the first palette entry
EmptySeedSelectsFirst ==
    (placeholder # NotReached /\ fallbackSeed = <<>>) => placeholder = Str(FALLBACK_IMAGES[1])

\* the hash of " z     " is -2436326394 = -37176 * 65536 + 39942, and its
\* index is 5
KnownHash ==
    (placeholder # NotReached /\ fallbackSeed = <<" ", "z", " ", " ", " ", " ", " ">>) =>
        /\ FinalHash = [hi |-> 0 - 37176, lo |-> 39942]
        /\ placeholder = Str(FALLBACK_IMAGES[6])

-----------------------------------------------------------------------------
(* The order in which the fetches complete (89-99, 152-163) *)

\* what source s delivered to call c, as articles
DeliveredBy(c, s) == ArticlesOf([t \in Sources |-> SettledResult(responses[c][t])], s)

\* the articles of the four sources, in the order of FEED_SOURCES
InSourceOrder(c) ==
    DeliveredBy(c, 1) \o DeliveredBy(c, 2) \o DeliveredBy(c, 3) \o DeliveredBy(c, 4)

\* C24: the returned list is a function of the responses (by source), the
\* archive read and the clock: which fetch settled first has no part in it.
C24_IndependentOfCompletionOrder ==
    \A c \in Calls :
        /\ ReturnedAtLine176(c) =>
              outcome[c] = Resolved(Array(MergedArticles(archived[c].a, InSourceOrder(c),
                                                         returnedAt[c])))
        /\ (HasReturned(c) /\ ~ReturnedAtLine176(c)) => outcome[c] = CatchBlock(stored[c])

\* C24 witness: the fetches settled in the reverse of the FEED_SOURCES order;
\* sources 1 and 2 delivered guid:A and the list holds the copy of source 2,
\* which settled before source 1; the articles of sources 3 and 4 have the
\* same publishedAt and the one of source 3, which settled later, comes first.
C24_Witness ==
    \E c \in Calls :
        /\ ReturnedAtLine176(c)
        /\ settleOrder[c] = <<4, 3, 2, 1>>
        /\ responses[c][1] = Body("ok", Array(<<ItemA, ItemB>>))
        /\ responses[c][2] = Body("ok", Array(<<ItemAUpdated>>))
        /\ \E i \in DOMAIN ReturnedList(c) :
              /\ ReturnedList(c)[i].id = GuidA
              /\ ReturnedList(c)[i].headline = Str(TitleUpdated)
        /\ \E i, j \in DOMAIN ReturnedList(c) :
              /\ i < j
              /\ ReturnedList(c)[i] = Normalize(ItemD, FEED_SOURCES[3])
              /\ ReturnedList(c)[j] = Normalize(ItemC, FEED_SOURCES[4])

-----------------------------------------------------------------------------
(* What a cycle leaves in the archive (165-183) *)

\* the values the archive may hold after call c: what the call found, its
\* merged list, and the first TrimLimit entries of that list
ArchiveAfterCycle(c) ==
    {stored[c]} \cup
        IF merged[c] = NotReached THEN {}
        ELSE {JSONstringify(merged[c].a), JSONstringify(Slice0(merged[c].a, TrimLimit))}

\* C25: after a cycle the archive is what it was before, or the merged list,
\* or the first entries of the merged list up to the limit; when the first
\* write fails and the list is within the limit there is no second write and
\* the archive is what it was; the fallback path writes nothing.
C25_ArchiveAfterCycle ==
    \A c \in Calls :
        HasReturned(c) =>
            /\ localStorage \in ArchiveAfterCycle(c)
            /\ (FirstWriteFailed(c) /\ Len(merged[c].a) <= TrimLimit) =>
                  Len(writes[c]) = 1 /\ localStorage = stored[c]
            /\ TookCatchBlock(c) =>
                  /\ localStorage = stored[c]
                  /\ \A i \in DOMAIN writes[c] : ~writes[c][i].ok

\* C25 witness: the first write of a list within the limit failed and the
\* archive still holds the list of an earlier cycle, which is another list
C25_Witness ==
    \E c \in Calls :
        /\ HasReturned(c) /\ FirstWriteFailed(c)
        /\ merged[c].a # <<>> /\ Len(merged[c].a) <= TrimLimit
        /\ IsStoredList(localStorage) /\ localStorage.json.a # <<>>
        /\ localStorage # JSONstringify(merged[c].a)

\* each of the three values is left by some cycle that found something else
ArchiveBecomesMergedList ==
    \E c \in Calls :
        /\ HasReturned(c) /\ merged[c] # NotReached
        /\ localStorage = JSONstringify(merged[c].a) /\ localStorage # stored[c]
ArchiveBecomesTrimmedList ==
    \E c \in Calls :
        /\ HasReturned(c) /\ merged[c] # NotReached /\ Len(merged[c].a) > TrimLimit
        /\ localStorage = JSONstringify(Slice0(merged[c].a, TrimLimit))
ArchiveKeptOnFallback ==
    \E c \in Calls : TookCatchBlock(c) /\ IsStoredList(localStorage) /\ writes[c] # <<>>

-----------------------------------------------------------------------------
(* An undated item and the archived article of the same id (114-130, 152-163) *)

\* the cycle was delivered an item with the id of a, without a pubDate that
\* parses
UndatedCopyDelivered(c, a) ==
    \E f \in Elems(IntendedFresh(c)) : f.id = a.id /\ f.publishedAt = NaN

\* C26: an archived article inside the retention window is still in the
\* returned list, and in the archive once the list is saved, when the cycle
\* was delivered an undated item with its id.
C26_UndatedItemKeepsArchivedArticle ==
    \A c \in Calls :
        ReturnedAtLine176(c) =>
            \A a \in Elems(archived[c].a) :
                (Retained(a, CutoffOf(c)) /\ UndatedCopyDelivered(c, a)) =>
                    /\ a.id \in IdsOf(ReturnedList(c))
                    /\ SavedInFull(c) => a.id \in IdsOf(localStorage.json.a)

\* What holds of C26: an archived article inside the retention window leaves
\* the list only when the last copy of its id delivered in the cycle is
\* undated.
ArchivedArticleLeavesOnlyForUndatedCopy ==
    \A c \in Calls :
        ReturnedAtLine176(c) =>
            \A a \in Elems(archived[c].a) :
                (Retained(a, CutoffOf(c)) /\ a.id \notin IdsOf(ReturnedList(c))) =>
                    /\ UndatedCopyDelivered(c, a)
                    /\ LastCopy(IntendedFresh(c), a.id).publishedAt = NaN

-----------------------------------------------------------------------------
(* Two overlapping cycles that fetched the same id (89-97, 142-167) *)

\* the cycle fetched an article with this id
Fetched(c, id) == id \in IdsOf(IntendedFresh(c))

\* the copy of the id the cycle fetched
FetchedCopy(c, id) == LastCopy(IntendedFresh(c), id)

\* the copy of the id the archive holds
ArchivedCopy(id) == JSONparse(localStorage).a[CHOOSE i \in DOMAIN JSONparse(localStorage).a :
                                                  JSONparse(localStorage).a[i].id = id]

\* c was called while d was suspended at the await, both have returned after
\* saving their merged list, and they fetched different copies of the id
StartedLaterWithAnotherCopy(c, d, id) ==
    /\ c # d /\ HasReturned(c) /\ HasReturned(d)
    /\ d \in inFlightAtCall[c]
    /\ SavedInFull(c) /\ SavedInFull(d)
    /\ Fetched(c, id) /\ Fetched(d, id)
    /\ FetchedCopy(c, id) # FetchedCopy(d, id)

\* C27: of two overlapping cycles that fetched different copies of an id, the
\* archive holds, once both have completed, the copy of the cycle that
\* started later, whichever finished last.
C27_LaterStartedCopyIsKept ==
    \A c, d \in Calls :
        StartedLaterWithAnotherCopy(c, d, GuidA) =>
            /\ GuidA \in IdsOf(JSONparse(localStorage).a)
            /\ ArchivedCopy(GuidA) = JsonArticle(FetchedCopy(c, GuidA))

\* What holds of C27: the archive holds the copy of the cycle that finished
\* last.
LastFinishedCopyIsKept ==
    \A c, d \in Calls :
        (StartedLaterWithAnotherCopy(c, d, GuidA) \/ StartedLaterWithAnotherCopy(d, c, GuidA)) =>
            (d \in returnedBefore[c] =>
                /\ GuidA \in IdsOf(JSONparse(localStorage).a)
                /\ ArchivedCopy(GuidA) = JsonArticle(FetchedCopy(c, GuidA)))

\* the cycle that started later finished last, and its copy is kept
LaterStartedFinishedLast ==
    \E c, d \in Calls :
        /\ StartedLaterWithAnotherCopy(c, d, GuidA) /\ d \in returnedBefore[c]
        /\ ArchivedCopy(GuidA) = JsonArticle(FetchedCopy(c, GuidA))

-----------------------------------------------------------------------------
(* A cycle run again on the same inputs (142-176) *)

\* c was called after d had returned, found the archive as d left it, and
\* ran on the same responses at the same clock value; both saved their merged
\* list at the first attempt
RanAgain(c, d) ==
    /\ c # d /\ HasReturned(c) /\ HasReturned(d)
    /\ d \in returnedBefore[c] /\ ~Overlapped(c, d)
    /\ stored[c] = StorageAfter(d)
    /\ responses[c] = responses[d]
    /\ returnedAt[c] = returnedAt[d]
    /\ SavedInFull(c) /\ SavedInFull(d)

\* C28: a second cycle with the same responses and the same clock, writes
\* succeeding, returns the list the first returned and leaves the archive as
\* the first saved it.
C28_CycleIsIdempotent ==
    \A c, d \in Calls :
        RanAgain(c, d) =>
            /\ outcome[c] = outcome[d]
            /\ StorageAfter(c) = StorageAfter(d)
            /\ localStorage = StorageAfter(d)

\* C28 witness: the cycle run again returned three articles, two of them
\* equally recent, and the archive it found was not empty
C28_Witness ==
    \E c, d \in Calls :
        /\ RanAgain(c, d)
        /\ ReturnedAList(c) /\ Len(ReturnedList(c)) = 3
        /\ ReturnedList(c)[2].publishedAt = ReturnedList(c)[3].publishedAt
        /\ archived[c].a = ReturnedList(d)

-----------------------------------------------------------------------------
(* The index of the breaking ticker (part_003, 57-69 and 92-113) *)

\* C29: whenever the ticker is rendered, activeTickerIndex is an index of
\* tickerNews, after any auto-scroll ticks, clicks and refreshes.
C29_TickerIndexInRange ==
    TickerRendered => (0 <= activeTickerIndex /\ activeTickerIndex < Len(tickerNews))

\* What holds of C29: the auto-scroll and the two buttons leave an index of
\* the tickerNews they ran on, and the index never leaves 0..4.
ScrollAndClicksKeepIndexInRange ==
    [][(AutoScroll \/ nextTicker \/ prevTicker) =>
          (0 <= activeTickerIndex' /\ activeTickerIndex' < Len(tickerNews))]_vars

TickerIndexBelowSize == activeTickerIndex \in 0..(TickerSize - 1)

\* a refresh left fewer breaking articles than the index needs
RefreshLeftIndexBehind ==
    /\ TickerRendered
    /\ activeTickerIndex = TickerSize - 1
    /\ Len(tickerNews) = 1

====
